---------------------------- MODULE Spec2Model ----------------------------
(***************************************************************************)
(* Taskify: the Express task API (routes/tasks.js), its auth middleware    *)
(* (middleware/authMiddleware.js) and the stores they read and write.      *)
(*                                                                         *)
(* A JavaScript string is a sequence of one-character strings, so that     *)
(* startsWith, substring and trim are computed as the code computes them.  *)
(* A word the code never takes apart (an enum value, a field name) is a    *)
(* sequence of one element.  The value undefined is the one-element        *)
(* sequence Undefined.                                                     *)
(*                                                                         *)
(* One request is in flight at a time; it passes the gate, then its route. *)
(* The stores answer every query: an outage of the database is not part of *)
(* the model.                                                              *)
(***************************************************************************)
EXTENDS Integers, Sequences, FiniteSets, TLC

VARIABLES
    users,      \* the User collection: a set of user documents
    tasks,      \* the Task collection: a set of task documents
    nextId,     \* the next _id the store assigns to a created task
    req,        \* the request in flight (and, once answered, the last one)
    resp,       \* the response sent for req: [code, body], or NoResp
    creator,    \* history: creator[i] is the user whose request created task i
    isConnected, \* server.js: whether mongoose.connect has succeeded
    peer,       \* a second request, in flight at the same time as req
    attempts,   \* server.js: the calls of mongoose.connect, made and pending
    dash,       \* client: the state of the Dashboard page and its requests
    storage,    \* client: localStorage, the axios defaults, the last request
    dialog      \* client: the state of the TaskDialog and its request

\* The variables that the steps of the request req leave alone.
aux == <<peer, attempts, dash, storage, dialog>>

vars == <<users, tasks, nextId, req, resp, creator, isConnected, aux>>

-----------------------------------------------------------------------------
(* Bounds of the model *)

\* Number of task identifiers the store can assign.
MaxTasks == 2

\* The same, under the specification that sends the create requests with
\* many values per field.
MaxCreated == 1

\* Number of promise chains the Dashboard has in flight at a time.
MaxInFlight == 2

\* Number of task identifiers the store can assign under the
\* specifications of the client.
MaxShown == 1

-----------------------------------------------------------------------------
(* JavaScript values *)

Undefined == <<"undefined">>

\* Mutant of Falsy: the empty string counts as a value.
FalsyOnlyUndefined(v) == v = Undefined

\* !v for a string or undefined: undefined and "" are falsy.
Falsy(v) == v = Undefined \/ v = <<>>

Truthy(v) == ~Falsy(v)

\* s.startsWith(prefix)
StartsWith(s, prefix) ==
    /\ s # Undefined
    /\ Len(s) >= Len(prefix)
    /\ SubSeq(s, 1, Len(prefix)) = prefix

\* s.substring(n)
Substring(s, n) == SubSeq(s, n + 1, Len(s))

RECURSIVE TrimStart(_)
TrimStart(s) ==
    IF s # <<>> /\ Head(s) = " " THEN TrimStart(Tail(s)) ELSE s

RECURSIVE TrimEnd(_)
TrimEnd(s) ==
    IF s # <<>> /\ s[Len(s)] = " " THEN TrimEnd(SubSeq(s, 1, Len(s) - 1)) ELSE s

\* s.trim()
Trim(s) == TrimEnd(TrimStart(s))

-----------------------------------------------------------------------------
(* Users and bearer tokens *)

UserIds == {"u1", "u2"}

\* The user document stored for an identifier; password is the bcrypt hash.
UserDoc(u) ==
    [_id |-> u, username |-> <<u>>, email |-> <<u, "@", "x">>,
     password |-> <<"$2a$", u>>]

AllUsers == {UserDoc(u) : u \in UserIds}

\* Mutant of SelectPublic: the whole document is selected.
SelectWhole(d) == d

\* .select('-password') and populate('userId', 'username email'): the
\* document without its password field.
SelectPublic(d) == [_id |-> d._id, username |-> d.username, email |-> d.email]

\* What the issuer put into each token, and whether the signature is the
\* server's.  "A" and "B" are live tokens of u1 and u2, "E" is an expired
\* token of u1, "X" carries a wrong signature, "Z" carries a wrong signature
\* and an expiry in the past.  Any other string is no JWT at all.
TokenChars == {"A", "B", "E", "X", "Z"}

TokenUserId(t) == IF t = <<"B">> THEN "u2" ELSE "u1"

TokenWellFormed(t) == Len(t) = 1 /\ t[1] \in TokenChars

TokenSigned(t) == TokenWellFormed(t) /\ t[1] \in {"A", "B", "E"}

TokenPastExpiry(t) == TokenWellFormed(t) /\ t[1] \in {"E", "Z"}

\* jwt.verify(token, secret): the signature is checked before the expiry.
JwtVerify(token) ==
    IF ~TokenSigned(token)
    THEN [error |-> "JsonWebTokenError", userId |-> "none"]
    ELSE IF TokenPastExpiry(token)
    THEN [error |-> "TokenExpiredError", userId |-> "none"]
    ELSE [error |-> "none", userId |-> TokenUserId(token)]

BearerPrefix == <<"B", "e", "a", "r", "e", "r", " ">>

\* The Authorization headers a client sends.
Headers ==
    { Undefined,
      <<>>,
      <<"B", "a", "s", "i", "c", " ", "A">>,
      <<"B", "e", "a", "r", "e", "r">>,
      <<"b", "e", "a", "r", "e", "r", " ", "A">>,
      BearerPrefix,
      BearerPrefix \o <<" ", "A">> }
    \cup {BearerPrefix \o <<c>> : c \in TokenChars}

-----------------------------------------------------------------------------
(* middleware/authMiddleware.js *)

\* Mutant of FindUserById: the identity is taken from the token's claims
\* without reading the User collection.
FindUserByIdTrusting(store, id) == {SelectPublic(UserDoc(id))}

\* User.findById(id).select('-password'): the set holding the document, or
\* the empty set for null.
FindUserById(store, id) == {SelectPublic(d) : d \in {x \in store : x._id = id}}

\* A return res.status(code).json({message}) of the gate: next() not called.
\* verified and userRead record whether jwt.verify and User.findById ran.
GateReject(code, message, verified, userRead) ==
    [next |-> FALSE, code |-> code, message |-> message, user |-> {},
     verified |-> verified, userRead |-> userRead]

\* Mutant of AuthMiddleware: the catch answers every jwt.verify error with
\* the same message.
AuthMiddlewareOneReason(authHeader, store) ==
    IF Falsy(authHeader)
    THEN GateReject(401, "No token provided, authorization denied", FALSE, FALSE)
    ELSE IF ~StartsWith(authHeader, BearerPrefix)
    THEN GateReject(401, "Invalid token format", FALSE, FALSE)
    ELSE LET token == Substring(authHeader, 7) IN
         IF Falsy(token)
         THEN GateReject(401, "No token provided, authorization denied",
                         FALSE, FALSE)
         ELSE LET decoded == JwtVerify(token) IN
              IF decoded.error # "none"
              THEN GateReject(401, "Token is not valid", TRUE, FALSE)
              ELSE LET user == FindUserById(store, decoded.userId) IN
                   IF user = {}
                   THEN GateReject(401, "Token is not valid", TRUE, TRUE)
                   ELSE [next |-> TRUE, code |-> 0, message |-> "",
                         user |-> user, verified |-> TRUE, userRead |-> TRUE]

AuthMiddleware(authHeader, store) ==
    IF Falsy(authHeader)
    THEN GateReject(401, "No token provided, authorization denied", FALSE, FALSE)
    ELSE IF ~StartsWith(authHeader, BearerPrefix)
    THEN GateReject(401, "Invalid token format", FALSE, FALSE)
    ELSE LET token == Substring(authHeader, 7) IN
         IF Falsy(token)
         THEN GateReject(401, "No token provided, authorization denied",
                         FALSE, FALSE)
         ELSE LET decoded == JwtVerify(token) IN
              IF decoded.error = "JsonWebTokenError"
              THEN GateReject(401, "Token is not valid", TRUE, FALSE)
              ELSE IF decoded.error = "TokenExpiredError"
              THEN GateReject(401, "Token has expired", TRUE, FALSE)
              ELSE LET user == FindUserById(store, decoded.userId) IN
                   IF user = {}
                   THEN GateReject(401, "Token is not valid", TRUE, TRUE)
                   ELSE [next |-> TRUE, code |-> 0, message |-> "",
                         user |-> user, verified |-> TRUE, userRead |-> TRUE]

-----------------------------------------------------------------------------
(* models/Task.js: the Task schema *)

StatusEnum == {<<"pending">>, <<"in-progress">>, <<"completed">>}

PriorityEnum == {<<"low">>, <<"medium">>, <<"high">>}

\* Invalid Date: getTime() is NaN.
NaN == -1

\* The validators document.save() and runValidators apply: title is
\* required, dueDate is a valid date, status and priority are closed
\* enumerations.  (The length limits of title and description need strings
\* longer than any the model sends and are left out.)
TaskSchemaValid(doc) ==
    /\ doc.title # <<>>
    /\ doc.dueDate # NaN
    /\ doc.status \in StatusEnum
    /\ doc.priority \in PriorityEnum

\* The enum validator of the status path alone, as runValidators applies it
\* to the update {status}.
StatusPathValid(status) == status \in StatusEnum

-----------------------------------------------------------------------------
(* Dates and identifiers *)

\* What follows the year in the ISO form of the first instant of a year:
\* "-01-01T00:00:00.000Z".
IsoSuffix ==
    <<"-", "0", "1", "-", "0", "1", "T", "0", "0", ":", "0", "0", ":", "0", "0",
      ".", "0", "0", "0", "Z">>

\* new Date(s).getTime(): the instant a date string denotes (the model
\* counts instants in years), or NaN when the string does not parse.  A
\* year alone and the ISO form of its first instant denote the same instant.
DateParse(s) ==
    LET year == IF Len(s) = 4 + Len(IsoSuffix)
                   /\ SubSeq(s, 5, Len(s)) = IsoSuffix
                THEN SubSeq(s, 1, 4) ELSE s
    IN  IF year = <<"2", "0", "3", "0">> THEN 2030
        ELSE IF year = <<"2", "0", "3", "1">> THEN 2031
        ELSE NaN

Digits == <<"0", "1", "2", "3", "4", "5", "6", "7", "8", "9">>

\* Date.prototype.toISOString, as res.json writes a Date of a document.
ToISOString(t) ==
    <<Digits[(t \div 1000) + 1], Digits[((t \div 100) % 10) + 1],
      Digits[((t \div 10) % 10) + 1], Digits[(t % 10) + 1]>> \o IsoSuffix

\* A request parameter that does not cast to an ObjectId (the store throws
\* CastError).  Well-formed identifiers are the positive numbers.
MalformedId == 0

\* Mutant of IsObjectId: every parameter casts, and a malformed one matches
\* no document.
IsObjectIdAlways(id) == TRUE

IsObjectId(id) == id # MalformedId

-----------------------------------------------------------------------------
(* Responses *)

\* res.status(code).json(body)
Json(code, body) == [code |-> code, body |-> body]

NoResp == Json(0, [message |-> ""])

\* task.populate('userId', 'username email'): the owner reference replaced
\* by the owner's public fields, or by null (the empty set) when the owner
\* is gone from the User collection.
Populate(doc, userStore) ==
    [doc EXCEPT !.userId = FindUserById(userStore, doc.userId)]

\* What a handler hands back: the Task collection and the identifier
\* counter after it, and its response.
Outcome(store, nid, r) == [tasks |-> store, nextId |-> nid, resp |-> r]

-----------------------------------------------------------------------------
(* routes/tasks.js: router.get('/:id') *)

\* Mutant of FindOwned: the query filters on _id alone.
FindById(store, id, user) == {d \in store : d._id = id}

\* Task.findOne({_id, userId}): the matching documents (none, or one).
FindOwned(store, id, user) ==
    {d \in store : d._id = id /\ d.userId = user._id}

\* Mutant of GetTask: a task of another user is answered 403.
GetTaskForbidden(store, userStore, user, id) ==
    IF ~IsObjectId(id)
    THEN Json(400, [message |-> "Invalid task ID"])
    ELSE LET found == {d \in store : d._id = id} IN
         IF found = {}
         THEN Json(404, [message |-> "Task not found"])
         ELSE IF \A d \in found : d.userId # user._id
         THEN Json(403, [message |-> "Forbidden"])
         ELSE Json(200, [message |-> "Task retrieved successfully",
                         task |-> Populate(CHOOSE d \in found : TRUE, userStore)])

GetTask(store, userStore, user, id) ==
    IF ~IsObjectId(id)
    THEN Json(400, [message |-> "Invalid task ID"])
    ELSE LET found == FindOwned(store, id, user) IN
         IF found = {}
         THEN Json(404, [message |-> "Task not found"])
         ELSE Json(200, [message |-> "Task retrieved successfully",
                         task |-> Populate(CHOOSE d \in found : TRUE, userStore)])

-----------------------------------------------------------------------------
(* routes/tasks.js: router.post('/') *)

\* Mutant of NewTask: a userId of the request body overrides the caller.
NewTaskTrustingBody(nid, user, body) ==
    [_id |-> nid,
     userId |-> IF body.userId # Undefined THEN body.userId[1] ELSE user._id,
     title |-> Trim(body.title),
     description |-> IF Truthy(body.description) THEN Trim(body.description)
                     ELSE <<>>,
     dueDate |-> DateParse(body.dueDate),
     status |-> IF Truthy(body.status) THEN body.status ELSE <<"pending">>,
     priority |-> IF Truthy(body.priority) THEN body.priority ELSE <<"medium">>]

\* Mutant of NewTask: title and description are stored as sent.
NewTaskUntrimmed(nid, user, body) ==
    [_id |-> nid,
     userId |-> user._id,
     title |-> body.title,
     description |-> IF Truthy(body.description) THEN body.description
                     ELSE <<>>,
     dueDate |-> DateParse(body.dueDate),
     status |-> IF Truthy(body.status) THEN body.status ELSE <<"pending">>,
     priority |-> IF Truthy(body.priority) THEN body.priority ELSE <<"medium">>]

NewTask(nid, user, body) ==
    [_id |-> nid,
     userId |-> user._id,
     title |-> Trim(body.title),
     description |-> IF Truthy(body.description) THEN Trim(body.description)
                     ELSE <<>>,
     dueDate |-> DateParse(body.dueDate),
     status |-> IF Truthy(body.status) THEN body.status ELSE <<"pending">>,
     priority |-> IF Truthy(body.priority) THEN body.priority ELSE <<"medium">>]

\* Mutant of CreateTask: the required-field check rejects only when both
\* title and dueDate are missing.
CreateTaskBothMissing(store, userStore, nid, user, body) ==
    IF Falsy(body.title) /\ Falsy(body.dueDate)
    THEN Outcome(store, nid,
                 Json(400, [message |-> "Title and due date are required"]))
    ELSE IF Truthy(body.dueDate) /\ DateParse(body.dueDate) = NaN
    THEN Outcome(store, nid, Json(400, [message |-> "Invalid due date format"]))
    ELSE LET task == NewTask(nid, user, body) IN
         IF ~TaskSchemaValid(task)
         THEN Outcome(store, nid,
                      Json(500, [message |-> "Server error while creating task"]))
         ELSE Outcome(store \cup {task}, nid + 1,
                      Json(201, [message |-> "Task created successfully",
                                 task |-> Populate(task, userStore)]))

\* Mutant of CreateTask: the dueDate is not parsed before the document is
\* built and saved.
CreateTaskNoDateCheck(store, userStore, nid, user, body) ==
    IF Falsy(body.title) \/ Falsy(body.dueDate)
    THEN Outcome(store, nid,
                 Json(400, [message |-> "Title and due date are required"]))
    ELSE LET task == NewTask(nid, user, body) IN
         IF ~TaskSchemaValid(task)
         THEN Outcome(store, nid,
                      Json(500, [message |-> "Server error while creating task"]))
         ELSE Outcome(store \cup {task}, nid + 1,
                      Json(201, [message |-> "Task created successfully",
                                 task |-> Populate(task, userStore)]))

CreateTask(store, userStore, nid, user, body) ==
    IF Falsy(body.title) \/ Falsy(body.dueDate)
    THEN Outcome(store, nid,
                 Json(400, [message |-> "Title and due date are required"]))
    ELSE IF DateParse(body.dueDate) = NaN
    THEN Outcome(store, nid, Json(400, [message |-> "Invalid due date format"]))
    ELSE LET task == NewTask(nid, user, body) IN
         IF ~TaskSchemaValid(task)
         THEN \* task.save() throws ValidationError: the catch answers 500
              Outcome(store, nid,
                      Json(500, [message |-> "Server error while creating task"]))
         ELSE Outcome(store \cup {task}, nid + 1,
                      Json(201, [message |-> "Task created successfully",
                                 task |-> Populate(task, userStore)]))

-----------------------------------------------------------------------------
(* routes/tasks.js: router.delete('/:id') *)

\* Mutant of DeleteTask: the query removes every task of the caller.
DeleteTaskAllOwned(store, nid, user, id) ==
    IF ~IsObjectId(id)
    THEN Outcome(store, nid, Json(400, [message |-> "Invalid task ID"]))
    ELSE LET found == FindOwned(store, id, user) IN
         IF found = {}
         THEN Outcome(store, nid, Json(404, [message |-> "Task not found"]))
         ELSE Outcome({d \in store : d.userId # user._id}, nid,
                      Json(200, [message |-> "Task deleted successfully",
                                 task |-> CHOOSE d \in found : TRUE]))

DeleteTask(store, nid, user, id) ==
    IF ~IsObjectId(id)
    THEN Outcome(store, nid, Json(400, [message |-> "Invalid task ID"]))
    ELSE LET found == FindOwned(store, id, user) IN
         IF found = {}
         THEN Outcome(store, nid, Json(404, [message |-> "Task not found"]))
         ELSE Outcome(store \ found, nid,
                      Json(200, [message |-> "Task deleted successfully",
                                 task |-> CHOOSE d \in found : TRUE]))

-----------------------------------------------------------------------------
(* routes/tasks.js: router.patch('/:id/status') *)

\* Mutant of PatchStatus: the query matches only a task whose status
\* differs from the one sent.
PatchStatusOnChange(store, userStore, nid, user, id, body) ==
    IF Falsy(body.status)
    THEN Outcome(store, nid, Json(400, [message |-> "Status is required"]))
    ELSE IF ~IsObjectId(id)
    THEN Outcome(store, nid, Json(400, [message |-> "Invalid task ID"]))
    ELSE IF ~StatusPathValid(body.status)
    THEN Outcome(store, nid,
                 Json(500, [message |-> "Server error while updating task status"]))
    ELSE LET found == {d \in FindOwned(store, id, user) :
                          d.status # body.status} IN
         IF found = {}
         THEN Outcome(store, nid, Json(404, [message |-> "Task not found"]))
         ELSE LET old == CHOOSE d \in found : TRUE
                  new == [old EXCEPT !.status = body.status]
              IN  Outcome((store \ found) \cup {new}, nid,
                          Json(200, [message |-> "Task status updated successfully",
                                     task |-> Populate(new, userStore)]))

PatchStatus(store, userStore, nid, user, id, body) ==
    IF Falsy(body.status)
    THEN Outcome(store, nid, Json(400, [message |-> "Status is required"]))
    ELSE IF ~IsObjectId(id)
    THEN Outcome(store, nid, Json(400, [message |-> "Invalid task ID"]))
    ELSE IF ~StatusPathValid(body.status)
    THEN \* runValidators: ValidationError, which the catch answers with 500
         Outcome(store, nid,
                 Json(500, [message |-> "Server error while updating task status"]))
    ELSE LET found == FindOwned(store, id, user) IN
         IF found = {}
         THEN Outcome(store, nid, Json(404, [message |-> "Task not found"]))
         ELSE LET old == CHOOSE d \in found : TRUE
                  new == [old EXCEPT !.status = body.status]
              IN  Outcome((store \ found) \cup {new}, nid,
                          Json(200, [message |-> "Task status updated successfully",
                                     task |-> Populate(new, userStore)]))

-----------------------------------------------------------------------------
(* routes/tasks.js: router.put('/:id') *)

\* Mutant of AssignFields: the description is assigned only when truthy,
\* like the other fields.
AssignFieldsIfDescription(task, body) ==
    [task EXCEPT
       !.dueDate = IF Truthy(body.dueDate) THEN DateParse(body.dueDate) ELSE @,
       !.title = IF Truthy(body.title) THEN Trim(body.title) ELSE @,
       !.description = IF Truthy(body.description)
                       THEN Trim(body.description) ELSE @,
       !.status = IF Truthy(body.status) THEN body.status ELSE @,
       !.priority = IF Truthy(body.priority) THEN body.priority ELSE @]

\* Mutant of AssignFields: the owner is assigned from the body as well.
AssignFieldsWithOwner(task, body) ==
    [task EXCEPT
       !.dueDate = IF Truthy(body.dueDate) THEN DateParse(body.dueDate) ELSE @,
       !.title = IF Truthy(body.title) THEN Trim(body.title) ELSE @,
       !.description = IF body.description # Undefined
                       THEN Trim(body.description) ELSE @,
       !.status = IF Truthy(body.status) THEN body.status ELSE @,
       !.priority = IF Truthy(body.priority) THEN body.priority ELSE @,
       !.userId = IF Truthy(body.userId) THEN body.userId[1] ELSE @]

\* Lines 147-162: the assignments to the loaded document.
AssignFields(task, body) ==
    [task EXCEPT
       !.dueDate = IF Truthy(body.dueDate) THEN DateParse(body.dueDate) ELSE @,
       !.title = IF Truthy(body.title) THEN Trim(body.title) ELSE @,
       !.description = IF body.description # Undefined
                       THEN Trim(body.description) ELSE @,
       !.status = IF Truthy(body.status) THEN body.status ELSE @,
       !.priority = IF Truthy(body.priority) THEN body.priority ELSE @]

\* Mutant of UpdateLoad: the dueDate of the body is assigned without the
\* isNaN check.
UpdateLoadUnchecked(store, user, id, body) ==
    IF ~IsObjectId(id)
    THEN [resp |-> Json(400, [message |-> "Invalid task ID"]),
          orig |-> {}, doc |-> {}]
    ELSE LET found == FindOwned(store, id, user) IN
         IF found = {}
         THEN [resp |-> Json(404, [message |-> "Task not found"]),
               orig |-> {}, doc |-> {}]
         ELSE [resp |-> NoResp, orig |-> found,
               doc |-> {AssignFields(CHOOSE d \in found : TRUE, body)}]

\* Up to the await of task.save(): either a response that ends the request,
\* or the loaded document (orig) and the document with the body's fields
\* assigned (doc), both as one-element sets.
UpdateLoad(store, user, id, body) ==
    IF ~IsObjectId(id)
    THEN [resp |-> Json(400, [message |-> "Invalid task ID"]),
          orig |-> {}, doc |-> {}]
    ELSE LET found == FindOwned(store, id, user) IN
         IF found = {}
         THEN [resp |-> Json(404, [message |-> "Task not found"]),
               orig |-> {}, doc |-> {}]
         ELSE IF Truthy(body.dueDate) /\ DateParse(body.dueDate) = NaN
         THEN [resp |-> Json(400, [message |-> "Invalid due date format"]),
               orig |-> {}, doc |-> {}]
         ELSE [resp |-> NoResp, orig |-> found,
               doc |-> {AssignFields(CHOOSE d \in found : TRUE, body)}]

TaskFields == {"userId", "title", "description", "dueDate", "status", "priority"}

\* The paths document.save() writes: those whose value was changed since
\* the document was loaded.
ModifiedPaths(orig, doc) == {f \in TaskFields : doc[f] # orig[f]}

\* Mutant of UpdateSave: the save writes the whole document, inserting it
\* when the store holds none of that _id.
UpdateSaveUpsert(store, userStore, nid, orig, doc) ==
    IF ~TaskSchemaValid(doc)
    THEN Outcome(store, nid,
                 Json(500, [message |-> "Server error while updating task"]))
    ELSE Outcome({d \in store : d._id # doc._id} \cup {doc}, nid,
                 Json(200, [message |-> "Task updated successfully",
                            task |-> Populate(doc, userStore)]))

\* Mutant of UpdateSave: a completed task may only be reopened to pending.
UpdateSaveLegalMoves(store, userStore, nid, orig, doc) ==
    IF ~TaskSchemaValid(doc)
       \/ (orig.status = <<"completed">> /\ doc.status = <<"in-progress">>)
    THEN Outcome(store, nid,
                 Json(500, [message |-> "Server error while updating task"]))
    ELSE LET stored == {d \in store : d._id = doc._id} IN
         IF stored = {}
         THEN Outcome(store, nid,
                      Json(500, [message |-> "Server error while updating task"]))
         ELSE LET cur == CHOOSE d \in stored : TRUE
                  new == [f \in DOMAIN cur |->
                             IF f \in ModifiedPaths(orig, doc) THEN doc[f]
                             ELSE cur[f]]
              IN  Outcome((store \ stored) \cup {new}, nid,
                          Json(200, [message |-> "Task updated successfully",
                                     task |-> Populate(doc, userStore)]))

\* task.save() and what follows it: validation, then the write of the
\* modified paths to the stored document of that _id.
UpdateSave(store, userStore, nid, orig, doc) ==
    IF ~TaskSchemaValid(doc)
    THEN Outcome(store, nid,
                 Json(500, [message |-> "Server error while updating task"]))
    ELSE LET stored == {d \in store : d._id = doc._id} IN
         IF stored = {}
         THEN \* the document is gone: save() throws DocumentNotFoundError
              Outcome(store, nid,
                      Json(500, [message |-> "Server error while updating task"]))
         ELSE LET cur == CHOOSE d \in stored : TRUE
                  new == [f \in DOMAIN cur |->
                             IF f \in ModifiedPaths(orig, doc) THEN doc[f]
                             ELSE cur[f]]
              IN  Outcome((store \ stored) \cup {new}, nid,
                          Json(200, [message |-> "Task updated successfully",
                                     task |-> Populate(doc, userStore)]))

-----------------------------------------------------------------------------
(* routes/tasks.js: router.get('/') *)

\* The characters of the strings the model sorts, in code-point order.
Alphabet == <<" ", "a", "b", "d">>

Rank(c) == CHOOSE i \in 1..Len(Alphabet) : Alphabet[i] = c

RECURSIVE StrLess(_, _)
StrLess(s, t) ==
    IF t = <<>> THEN FALSE
    ELSE IF s = <<>> THEN TRUE
    ELSE IF Head(s) # Head(t) THEN Rank(Head(s)) < Rank(Head(t))
    ELSE StrLess(Tail(s), Tail(t))

\* Whether a sorts strictly before b on the field, ascending.  A field the
\* documents do not have gives every document the same (null) key.
KeyLess(a, b, field) ==
    IF field = <<"dueDate">> THEN a.dueDate < b.dueDate
    ELSE IF field = <<"title">> THEN StrLess(a.title, b.title)
    ELSE IF field = <<"description">> THEN StrLess(a.description, b.description)
    ELSE FALSE

\* The orders in which the store may return the documents of S under
\* .sort({field: dir}); documents with equal keys come in any order.
SortedSeqs(S, field, dir) ==
    LET n == Cardinality(S) IN
    {s \in [1..n -> S] :
        /\ \A i, j \in 1..n : i # j => s[i] # s[j]
        /\ \A i, j \in 1..n : i < j =>
              IF dir = 1 THEN ~KeyLess(s[j], s[i], field)
              ELSE ~KeyLess(s[i], s[j], field)}

\* Mutant of GetTasks: the order is ascending only for 'asc'.
GetTasksAscOnlyForAsc(store, userStore, user, query) ==
    LET sortBy == IF query.sortBy = Undefined THEN <<"dueDate">> ELSE query.sortBy
        order == IF query.order = Undefined THEN <<"asc">> ELSE query.order
        matching == {d \in store :
                        /\ d.userId = user._id
                        /\ Truthy(query.status) => d.status = query.status}
        dir == IF order = <<"asc">> THEN 1 ELSE -1
    IN  {Json(200, [message |-> "Tasks retrieved successfully",
                    tasks |-> [i \in DOMAIN s |-> Populate(s[i], userStore)],
                    count |-> Len(s)]) :
            s \in SortedSeqs(matching, sortBy, dir)}

\* The responses GET /tasks can give.
GetTasks(store, userStore, user, query) ==
    LET sortBy == IF query.sortBy = Undefined THEN <<"dueDate">> ELSE query.sortBy
        order == IF query.order = Undefined THEN <<"asc">> ELSE query.order
        matching == {d \in store :
                        /\ d.userId = user._id
                        /\ Truthy(query.status) => d.status = query.status}
        dir == IF order = <<"desc">> THEN -1 ELSE 1
    IN  {Json(200, [message |-> "Tasks retrieved successfully",
                    tasks |-> [i \in DOMAIN s |-> Populate(s[i], userStore)],
                    count |-> Len(s)]) :
            s \in SortedSeqs(matching, sortBy, dir)}

-----------------------------------------------------------------------------
(* Requests *)

\* req.body of a task route; userId is a field the routes never read.
Body(title, description, dueDate, status, priority, userId) ==
    [title |-> title, description |-> description, dueDate |-> dueDate,
     status |-> status, priority |-> priority, userId |-> userId]

EmptyBody == Body(Undefined, Undefined, Undefined, Undefined, Undefined, Undefined)

\* req.query of GET /tasks
Query(status, sortBy, order) ==
    [status |-> status, sortBy |-> sortBy, order |-> order]

EmptyQuery == Query(Undefined, Undefined, Undefined)

\* No request: the state between two requests, and the blank a request
\* starts from.  pc is where the request stands: "gate" before
\* authMiddleware, "authed" after next(), "saving" at the await of
\* task.save() in PUT, "done" once the response is sent.
IdleReq ==
    [pc |-> "idle", header |-> Undefined, user |-> {},
     verified |-> FALSE, userRead |-> FALSE,
     method |-> "none", id |-> MalformedId, body |-> EmptyBody,
     query |-> EmptyQuery, orig |-> {}, doc |-> {}]

\* The :id parameters a client sends: malformed, assigned or assignable, and
\* one the store never assigns.
ParamIds == 0..(MaxTasks + 1)

\* The second request and its response, before it is sent.
IdlePeer == [req |-> IdleReq, resp |-> NoResp]

\* server.js at process start: mongoose.connect was never called.  calls
\* counts the calls of mongoose.connect, pending those not yet settled,
\* failed those that were rejected.
NoAttempts == [calls |-> 0, pending |-> 0, failed |-> 0]

\* connectDB when its await settles within the step: mongoose.connect is
\* called unless the flag is set.
ConnectDB(a) == IF isConnected THEN a ELSE [a EXCEPT !.calls = @ + 1]

\* A request of the client that was not sent.
NoReq == [method |-> "none", id |-> MalformedId, body |-> EmptyBody,
          header |-> Undefined]

\* A free slot of the Dashboard's promise chains.  kind is what started the
\* chain ("load", "saved", "status", "delete"), stage where its current
\* request stands ("sent", "answered"), orphan whether the Dashboard that
\* started it was unmounted since, from the status the task was shown with
\* when the status menu started the chain.
NoOp ==
    [kind |-> "none", stage |-> "free", req |-> NoReq, resp |-> NoResp,
     orphan |-> FALSE, from |-> Undefined]

\* Dashboard.tsx and TaskList.tsx before the page is mounted: useState of
\* tasks, loading and selectedTaskId, and no request in flight.
IdleDash ==
    [mounted |-> FALSE, tasks |-> <<>>, loading |-> TRUE, selectedTaskId |-> 0,
     ops |-> [i \in 1..MaxInFlight |-> NoOp]]

\* localStorage, the axios defaults and the location at page load, nobody
\* logged in.  leaving: window.location.href was assigned and the new page
\* has not loaded yet.  sent logs the Authorization headers of the requests
\* sent since the last login, logout or 401; revoked the tokens removed by
\* a 401 or a logout since the last login.
IdleStorage ==
    [token |-> Undefined, user |-> Undefined, defaults |-> Undefined,
     path |-> "/login", leaving |-> FALSE, sent |-> {}, revoked |-> {}]

\* formData.dueDate null: the date picker was cleared.
NullDate == -2

\* dayjs().add(1, 'day')
Tomorrow == 2030

\* TaskDialog.tsx: formData of a new task.
NewForm ==
    [title |-> <<>>, description |-> <<>>, dueDate |-> Tomorrow,
     status |-> <<"pending">>, priority |-> <<"medium">>]

\* TaskDialog.tsx, closed and never opened.  task is the _id of the task
\* edited (0 when creating), errors the fields with an error message.
IdleDialog ==
    [open |-> FALSE, task |-> 0, form |-> NewForm, errors |-> {},
     loading |-> FALSE, apiError |-> FALSE,
     stage |-> "idle", req |-> NoReq, resp |-> NoResp]

\* req.user, attached by the gate
ReqUser == CHOOSE u \in req.user : TRUE

Init ==
    /\ users = AllUsers
    /\ tasks = {}
    /\ nextId = 1
    /\ req = IdleReq
    /\ resp = NoResp
    /\ creator = <<>>
    /\ isConnected = FALSE
    /\ peer = IdlePeer
    /\ attempts = NoAttempts
    /\ dash = IdleDash
    /\ storage = IdleStorage
    /\ dialog = IdleDialog

\* A request to a /tasks route reaches the server with header h: the
\* serverless handler connects to the database (connectDB returns at once
\* when isConnected) and hands the request to the app.
Arrive(H) ==
    /\ req.pc \in {"idle", "done"}
    /\ \E h \in H :
          req' = [IdleReq EXCEPT !.pc = "gate", !.header = h]
    /\ resp' = NoResp
    /\ isConnected' = TRUE
    /\ attempts' = ConnectDB(attempts)
    /\ UNCHANGED <<users, tasks, nextId, creator>>
    /\ UNCHANGED <<peer, dash, storage, dialog>>

\* Mutant of AuthGate: a gate that passes stamps the user document it found.
AuthGateStamping ==
    /\ req.pc = "gate"
    /\ LET g == AuthMiddleware(req.header, users) IN
         /\ req' = [req EXCEPT !.pc = IF g.next THEN "authed" ELSE "done",
                               !.user = g.user,
                               !.verified = g.verified,
                               !.userRead = g.userRead]
         /\ resp' = IF g.next THEN resp ELSE Json(g.code, [message |-> g.message])
         /\ users' = {IF SelectPublic(d) \in g.user
                      THEN [d EXCEPT !.username = Append(@, "*")] ELSE d :
                      d \in users}
    /\ UNCHANGED <<tasks, nextId, creator, isConnected>>
    /\ UNCHANGED aux

\* Mutant of AuthGate: a rejecting path sends its response and, lacking its
\* return, still calls next().
AuthGateFallsThrough ==
    /\ req.pc = "gate"
    /\ LET g == AuthMiddleware(req.header, users) IN
         /\ req' = [req EXCEPT !.pc = "authed",
                               !.user = g.user,
                               !.verified = g.verified,
                               !.userRead = g.userRead]
         /\ resp' = IF g.next THEN resp ELSE Json(g.code, [message |-> g.message])
    /\ UNCHANGED <<users, tasks, nextId, creator, isConnected>>
    /\ UNCHANGED aux

\* router.use(authMiddleware): the gate runs on the request.
AuthGate ==
    /\ req.pc = "gate"
    /\ LET g == AuthMiddleware(req.header, users) IN
         /\ req' = [req EXCEPT !.pc = IF g.next THEN "authed" ELSE "done",
                               !.user = g.user,
                               !.verified = g.verified,
                               !.userRead = g.userRead]
         /\ resp' = IF g.next THEN resp ELSE Json(g.code, [message |-> g.message])
    /\ UNCHANGED <<users, tasks, nextId, creator, isConnected>>
    /\ UNCHANGED aux

\* A handler that answers in one step.
Answer(method, id, body, query, o) ==
    /\ req' = [req EXCEPT !.pc = "done", !.method = method, !.id = id,
                          !.body = body, !.query = query]
    /\ tasks' = o.tasks
    /\ nextId' = o.nextId
    /\ resp' = o.resp
    /\ creator' = IF o.nextId > nextId THEN Append(creator, ReqUser._id)
                  ELSE creator
    /\ UNCHANGED <<users, isConnected>>
    /\ UNCHANGED aux

RouteList(Q) ==
    /\ req.pc = "authed"
    /\ \E q \in Q : \E r \in GetTasks(tasks, users, ReqUser, q) :
          Answer("LIST", MalformedId, EmptyBody, q, Outcome(tasks, nextId, r))

RouteGet ==
    /\ req.pc = "authed"
    /\ \E id \in ParamIds :
          Answer("GET", id, EmptyBody, EmptyQuery,
                 Outcome(tasks, nextId, GetTask(tasks, users, ReqUser, id)))

\* POST /tasks; the store has identifiers for cap tasks.
RoutePost(B, cap) ==
    /\ req.pc = "authed"
    /\ \E b \in B :
          LET o == CreateTask(tasks, users, nextId, ReqUser, b) IN
            /\ o.nextId <= cap + 1
            /\ Answer("POST", MalformedId, b, EmptyQuery, o)

RouteDelete ==
    /\ req.pc = "authed"
    /\ \E id \in ParamIds :
          Answer("DELETE", id, EmptyBody, EmptyQuery,
                 DeleteTask(tasks, nextId, ReqUser, id))

RoutePatch(B) ==
    /\ req.pc = "authed"
    /\ \E id \in ParamIds : \E b \in B :
          Answer("PATCH", id, b, EmptyQuery,
                 PatchStatus(tasks, users, nextId, ReqUser, id, b))

\* PUT up to the await of task.save()
RoutePut(B) ==
    /\ req.pc = "authed"
    /\ \E id \in ParamIds : \E b \in B :
          LET l == UpdateLoad(tasks, ReqUser, id, b) IN
            /\ req' = [req EXCEPT !.pc = IF l.doc = {} THEN "done" ELSE "saving",
                                  !.method = "PUT", !.id = id, !.body = b,
                                  !.orig = l.orig, !.doc = l.doc]
            /\ resp' = l.resp
    /\ UNCHANGED <<users, tasks, nextId, creator, isConnected>>
    /\ UNCHANGED aux

\* PUT from task.save() to the response
PutSave ==
    /\ req.pc = "saving"
    /\ LET o == UpdateSave(tasks, users, nextId,
                           CHOOSE d \in req.orig : TRUE,
                           CHOOSE d \in req.doc : TRUE)
       IN  /\ tasks' = o.tasks
           /\ nextId' = o.nextId
           /\ resp' = o.resp
    /\ req' = [req EXCEPT !.pc = "done"]
    /\ UNCHANGED <<users, creator, isConnected>>
    /\ UNCHANGED aux

\* A user document is removed from the User collection (no route of the
\* task API does it; tasks of the user stay, nothing cascades).
DeleteUser ==
    /\ \E d \in users : users' = users \ {d}
    /\ UNCHANGED <<tasks, nextId, req, resp, creator, isConnected>>
    /\ UNCHANGED aux

-----------------------------------------------------------------------------
(* A second request in flight: Node runs the handlers of two requests in    *)
(* turn, switching at each await.  The gate reads the User collection only, *)
(* so its step is taken together with the first step of the route.          *)

\* The second request as the gate leaves it.
PeerGated(h, g, method, id, body) ==
    [IdleReq EXCEPT !.pc = IF g.next THEN "authed" ELSE "done",
                    !.header = h, !.user = g.user,
                    !.verified = g.verified, !.userRead = g.userRead,
                    !.method = IF g.next THEN method ELSE "none",
                    !.id = IF g.next THEN id ELSE MalformedId,
                    !.body = IF g.next THEN body ELSE EmptyBody]

\* PUT /tasks/:id of the second request, up to the await of task.save()
PeerPut(H, B) ==
    /\ peer.req.pc \in {"idle", "done"}
    /\ isConnected
    /\ \E h \in H : \E id \in ParamIds : \E b \in B :
          LET g == AuthMiddleware(h, users)
              gated == PeerGated(h, g, "PUT", id, b)
          IN  IF ~g.next
              THEN peer' = [req |-> gated,
                            resp |-> Json(g.code, [message |-> g.message])]
              ELSE LET l == UpdateLoad(tasks, CHOOSE u \in g.user : TRUE, id, b)
                   IN  peer' = [req |-> [gated EXCEPT
                                           !.pc = IF l.doc = {} THEN "done"
                                                  ELSE "saving",
                                           !.orig = l.orig, !.doc = l.doc],
                                resp |-> l.resp]
    /\ UNCHANGED <<users, tasks, nextId, req, resp, creator, isConnected>>
    /\ UNCHANGED <<attempts, dash, storage, dialog>>

\* PUT /tasks/:id of the second request, from task.save() to the response
PeerSave ==
    /\ peer.req.pc = "saving"
    /\ LET o == UpdateSave(tasks, users, nextId,
                           CHOOSE d \in peer.req.orig : TRUE,
                           CHOOSE d \in peer.req.doc : TRUE)
       IN  /\ tasks' = o.tasks
           /\ peer' = [req |-> [peer.req EXCEPT !.pc = "done"], resp |-> o.resp]
    /\ UNCHANGED <<users, nextId, req, resp, creator, isConnected>>
    /\ UNCHANGED <<attempts, dash, storage, dialog>>

\* DELETE /tasks/:id of the second request
PeerDelete(H) ==
    /\ peer.req.pc \in {"idle", "done"}
    /\ isConnected
    /\ \E h \in H : \E id \in ParamIds :
          LET g == AuthMiddleware(h, users)
              gated == PeerGated(h, g, "DELETE", id, EmptyBody)
          IN  IF ~g.next
              THEN /\ peer' = [req |-> gated,
                               resp |-> Json(g.code, [message |-> g.message])]
                   /\ tasks' = tasks
              ELSE LET o == DeleteTask(tasks, nextId, CHOOSE u \in g.user : TRUE, id)
                   IN  /\ peer' = [req |-> [gated EXCEPT !.pc = "done"],
                                    resp |-> o.resp]
                       /\ tasks' = o.tasks
    /\ UNCHANGED <<users, nextId, req, resp, creator, isConnected>>
    /\ UNCHANGED <<attempts, dash, storage, dialog>>

-----------------------------------------------------------------------------
(* server.js: what answers a request that no task route answers *)

\* The 404 handler: the request matches no route of the app.
UnknownRoute(P) ==
    /\ req.pc \in {"idle", "done"}
    /\ \E p \in P :
          resp' = Json(404, [message |-> "Route not found", path |-> p])
    /\ req' = [IdleReq EXCEPT !.pc = "done"]
    /\ isConnected' = TRUE
    /\ attempts' = ConnectDB(attempts)
    /\ UNCHANGED <<users, tasks, nextId, creator>>
    /\ UNCHANGED <<peer, dash, storage, dialog>>

\* The global error handler: a middleware ahead of the routes (the body
\* parser, on a body that is not JSON) passed err on.  status and message
\* of err may be missing; nodeEnv is process.env.NODE_ENV.
GlobalErrorHandler(E, NodeEnvs) ==
    /\ req.pc \in {"idle", "done"}
    /\ \E err \in E : \E nodeEnv \in NodeEnvs :
          LET code == IF err.status = 0 THEN 500 ELSE err.status
              message == IF err.message = "" THEN "Internal server error"
                         ELSE err.message
          IN  resp' = IF nodeEnv = "development"
                      THEN Json(code, [message |-> message, stack |-> err.stack])
                      ELSE Json(code, [message |-> message])
    /\ req' = [IdleReq EXCEPT !.pc = "done"]
    /\ isConnected' = TRUE
    /\ attempts' = ConnectDB(attempts)
    /\ UNCHANGED <<users, tasks, nextId, creator>>
    /\ UNCHANGED <<peer, dash, storage, dialog>>

\* The serverless handler of a request that arrives while the flag is not
\* set: connectDB calls mongoose.connect and waits.
EnterConnect(cap) ==
    /\ ~isConnected
    /\ attempts.calls < cap
    /\ attempts' = [attempts EXCEPT !.calls = @ + 1, !.pending = @ + 1]
    /\ UNCHANGED <<users, tasks, nextId, req, resp, creator, isConnected>>
    /\ UNCHANGED <<peer, dash, storage, dialog>>

\* A pending mongoose.connect resolves: the flag is set and the request is
\* handed to the app.
ConnectResolves(H) ==
    /\ attempts.pending > 0
    /\ req.pc \in {"idle", "done"}
    /\ \E h \in H :
          req' = [IdleReq EXCEPT !.pc = "gate", !.header = h]
    /\ resp' = NoResp
    /\ isConnected' = TRUE
    /\ attempts' = [attempts EXCEPT !.pending = @ - 1]
    /\ UNCHANGED <<users, tasks, nextId, creator>>
    /\ UNCHANGED <<peer, dash, storage, dialog>>

\* A pending mongoose.connect is rejected: connectDB rethrows, the handler
\* answers 500 and the app is not called.
ConnectRejects ==
    /\ attempts.pending > 0
    /\ req.pc \in {"idle", "done"}
    /\ resp' = Json(500, [message |-> "Internal server error",
                          error |-> "connect ECONNREFUSED"])
    /\ req' = [IdleReq EXCEPT !.pc = "done"]
    /\ attempts' = [attempts EXCEPT !.pending = @ - 1, !.failed = @ + 1]
    /\ UNCHANGED <<users, tasks, nextId, creator, isConnected>>
    /\ UNCHANGED <<peer, dash, storage, dialog>>

\* The serverless handler when connectDB throws: the app is not called.
ConnectFails ==
    /\ req.pc \in {"idle", "done"}
    /\ ~isConnected
    /\ resp' = Json(500, [message |-> "Internal server error",
                          error |-> "MONGODB_URI environment variable is not defined"])
    /\ req' = [IdleReq EXCEPT !.pc = "done"]
    /\ UNCHANGED <<users, tasks, nextId, creator, isConnected>>
    /\ UNCHANGED aux

-----------------------------------------------------------------------------
(* client/src/services/api.js *)

\* The Authorization header of a request sent now: the axios default
\* (api.defaults.headers.common), which the request interceptor overwrites
\* when localStorage holds a token.
RequestAuthorization(s) ==
    IF Truthy(s.token) THEN BearerPrefix \o s.token ELSE s.defaults

\* api.get / post / put / patch / delete: the request as it leaves.
Request(s, method, id, body) ==
    [method |-> method, id |-> id, body |-> body,
     header |-> RequestAuthorization(s)]

\* The storage once a request with header h was sent.
Logged(s, h) == [s EXCEPT !.sent = @ \cup {h}]

\* tokenUtils.setToken
SetToken(s, token) ==
    [s EXCEPT !.token = token, !.defaults = BearerPrefix \o token]

\* tokenUtils.removeToken
RemoveToken(s) ==
    [s EXCEPT !.token = Undefined, !.user = Undefined, !.defaults = Undefined]

\* tokenUtils.isAuthenticated
IsAuthenticated(s) == Truthy(s.token)

\* The tokens of s a 401 or a logout takes away.
Held(s) == {s.token} \ {Undefined}

\* The response interceptor on a response with this status code.
ResponseInterceptor(s, code) ==
    IF code = 401
    THEN [s EXCEPT !.token = Undefined, !.user = Undefined,
                   !.leaving = @ \/ s.path \notin {"/login", "/signup"},
                   !.revoked = @ \cup Held(s), !.sent = {}]
    ELSE s

\* axios resolves a response whose status is 2xx and rejects any other.
Resolved(r) == r.code \in 200..299

-----------------------------------------------------------------------------
(* The server, on a request of the client *)

\* authMiddleware and the task route of request r, run from the arrival of
\* the request to its response: the outcomes it can have.
Serve(store, userStore, nid, r) ==
    LET g == AuthMiddleware(r.header, userStore) IN
      IF ~g.next
      THEN {Outcome(store, nid, Json(g.code, [message |-> g.message]))}
      ELSE LET u == CHOOSE x \in g.user : TRUE IN
           IF r.method = "GET"
           THEN {Outcome(store, nid, x) :
                    x \in GetTasks(store, userStore, u, EmptyQuery)}
           ELSE IF r.method = "POST"
           THEN {CreateTask(store, userStore, nid, u, r.body)}
           ELSE IF r.method = "PATCH"
           THEN {PatchStatus(store, userStore, nid, u, r.id, r.body)}
           ELSE IF r.method = "DELETE"
           THEN {DeleteTask(store, nid, u, r.id)}
           ELSE LET l == UpdateLoad(store, u, r.id, r.body) IN
                IF l.doc = {}
                THEN {Outcome(store, nid, l.resp)}
                ELSE {UpdateSave(store, userStore, nid,
                                 CHOOSE d \in l.orig : TRUE,
                                 CHOOSE d \in l.doc : TRUE)}

\* The server variables once request r had outcome o.
Served(r, o) ==
    /\ tasks' = o.tasks
    /\ nextId' = o.nextId
    /\ creator' = IF o.nextId > nextId
                  THEN Append(creator,
                              (CHOOSE u \in AuthMiddleware(r.header, users).user :
                                  TRUE)._id)
                  ELSE creator
    /\ isConnected' = TRUE
    /\ attempts' = ConnectDB(attempts)
    /\ UNCHANGED <<users, req, resp, peer>>

\* The server answers the request of chain i of the Dashboard.
ServerAnswers ==
    \E i \in 1..MaxInFlight :
       /\ dash.ops[i].stage = "sent"
       /\ \E o \in Serve(tasks, users, nextId, dash.ops[i].req) :
             /\ Served(dash.ops[i].req, o)
             /\ dash' = [dash EXCEPT !.ops[i].stage = "answered",
                                     !.ops[i].resp = o.resp]
       /\ UNCHANGED <<storage, dialog>>

\* The server answers the request of the TaskDialog; the store has
\* identifiers for cap tasks.
ServerAnswersDialog(cap) ==
    /\ dialog.stage = "sent"
    /\ \E o \in Serve(tasks, users, nextId, dialog.req) :
          /\ o.nextId <= cap + 1
          /\ Served(dialog.req, o)
          /\ dialog' = [dialog EXCEPT !.stage = "answered", !.resp = o.resp]
    /\ UNCHANGED <<storage, dash>>

-----------------------------------------------------------------------------
(* client/src/pages/Login.tsx, App.tsx *)

\* handleSubmit of the login page, answered with a token of T: the token
\* and the user are stored and the router shows /dashboard.
Login(T) ==
    /\ storage.path = "/login"
    /\ ~storage.leaving
    /\ ~IsAuthenticated(storage)
    /\ \E t \in T :
          /\ \E u \in users : u._id = TokenUserId(t)
          /\ storage' = [SetToken(storage, t) EXCEPT
                            !.user = TokenUserId(t), !.path = "/dashboard",
                            !.sent = {}, !.revoked = {}]
    /\ UNCHANGED <<users, tasks, nextId, req, resp, creator, isConnected>>
    /\ UNCHANGED <<peer, attempts, dash, dialog>>

\* The browser loads the page window.location.href was set to: the script
\* starts afresh, localStorage stays.
PageLoad ==
    /\ storage.leaving
    /\ storage' = [storage EXCEPT !.defaults = Undefined, !.path = "/login",
                                  !.leaving = FALSE]
    /\ dash' = IdleDash
    /\ dialog' = IdleDialog
    /\ UNCHANGED <<users, tasks, nextId, req, resp, creator, isConnected>>
    /\ UNCHANGED <<peer, attempts>>

-----------------------------------------------------------------------------
(* client/src/pages/Dashboard.tsx, client/src/components/TaskList.tsx *)

\* The least free slot of the chains.
FreeSlot(ops) ==
    CHOOSE i \in 1..MaxInFlight :
       ops[i] = NoOp /\ \A j \in 1..(i - 1) : ops[j] # NoOp

HasFreeSlot(ops) == \E i \in 1..MaxInFlight : ops[i] = NoOp

\* A chain at its request GET /tasks.
LoadOp(s, kind, orphan, from) ==
    [kind |-> kind, stage |-> "sent",
     req |-> Request(s, "GET", MalformedId, EmptyBody), resp |-> NoResp,
     orphan |-> orphan, from |-> from]

\* loadTasks up to its await: loading is set and GET /tasks is sent in a
\* free slot.
LoadTasks(d, s, kind) ==
    [d EXCEPT !.loading = TRUE,
              !.ops[FreeSlot(d.ops)] = LoadOp(s, kind, FALSE, Undefined)]

\* The effect of the Dashboard when it is mounted.
DashMount ==
    /\ storage.path = "/dashboard"
    /\ ~dash.mounted
    /\ IF ~IsAuthenticated(storage)
       THEN /\ storage' = [storage EXCEPT !.path = "/login"]
            /\ dash' = dash
       ELSE /\ HasFreeSlot(dash.ops)
            /\ dash' = [LoadTasks([dash EXCEPT !.tasks = <<>>], storage, "load")
                           EXCEPT !.mounted = TRUE, !.selectedTaskId = 0]
            /\ storage' = Logged(storage, RequestAuthorization(storage))
    /\ UNCHANGED <<users, tasks, nextId, req, resp, creator, isConnected>>
    /\ UNCHANGED <<peer, attempts, dialog>>

\* handleLogout: the Dashboard is unmounted, the chains it started go on.
Logout ==
    /\ dash.mounted
    /\ ~dialog.open
    /\ storage' = [RemoveToken(storage) EXCEPT
                      !.path = "/login",
                      !.revoked = @ \cup Held(storage), !.sent = {}]
    /\ dash' = [dash EXCEPT
                  !.mounted = FALSE,
                  !.ops = [i \in 1..MaxInFlight |->
                             IF dash.ops[i] = NoOp THEN NoOp
                             ELSE [dash.ops[i] EXCEPT !.orphan = TRUE]]]
    /\ UNCHANGED <<users, tasks, nextId, req, resp, creator, isConnected>>
    /\ UNCHANGED <<peer, attempts, dialog>>

\* The tasks shown with this _id.
Shown(id) == {dash.tasks[i] : i \in {j \in DOMAIN dash.tasks : dash.tasks[j]._id = id}}

\* handleMenuOpen on a task of the list.
DashMenuOpen ==
    /\ dash.mounted
    /\ ~dialog.open
    /\ \E i \in DOMAIN dash.tasks :
          dash' = [dash EXCEPT !.selectedTaskId = dash.tasks[i]._id]
    /\ dash'.selectedTaskId # dash.selectedTaskId
    /\ UNCHANGED <<users, tasks, nextId, req, resp, creator, isConnected>>
    /\ UNCHANGED <<peer, attempts, storage, dialog>>

\* handleMenuClose
DashMenuClose ==
    /\ dash.mounted
    /\ dash.selectedTaskId # 0
    /\ dash' = [dash EXCEPT !.selectedTaskId = 0]
    /\ UNCHANGED <<users, tasks, nextId, req, resp, creator, isConnected>>
    /\ UNCHANGED <<peer, attempts, storage, dialog>>

\* Mutant of GetStatusActions: a completed task is offered Start Task.
GetStatusActionsRestart(task) ==
    IF task.status = <<"pending">>
    THEN << [label |-> "Start Task", status |-> <<"in-progress">>],
            [label |-> "Mark Complete", status |-> <<"completed">>] >>
    ELSE IF task.status = <<"in-progress">>
    THEN << [label |-> "Mark Complete", status |-> <<"completed">>],
            [label |-> "Pause Task", status |-> <<"pending">>] >>
    ELSE IF task.status = <<"completed">>
    THEN << [label |-> "Start Task", status |-> <<"in-progress">>] >>
    ELSE << >>

\* getStatusActions: the entries of the status menu of a task, each with
\* the status its onClick hands to onStatusChange.
GetStatusActions(task) ==
    IF task.status = <<"pending">>
    THEN << [label |-> "Start Task", status |-> <<"in-progress">>],
            [label |-> "Mark Complete", status |-> <<"completed">>] >>
    ELSE IF task.status = <<"in-progress">>
    THEN << [label |-> "Mark Complete", status |-> <<"completed">>],
            [label |-> "Pause Task", status |-> <<"pending">>] >>
    ELSE IF task.status = <<"completed">>
    THEN << [label |-> "Reopen Task", status |-> <<"pending">>] >>
    ELSE << >>

\* A click on an entry of the status menu: handleTaskStatusChanged up to
\* its await, and handleMenuClose.
DashStatusChange ==
    /\ dash.mounted
    /\ dash.selectedTaskId # 0
    /\ HasFreeSlot(dash.ops)
    /\ \E task \in Shown(dash.selectedTaskId) :
          \E k \in DOMAIN GetStatusActions(task) :
             LET r == Request(storage, "PATCH", task._id,
                              [EmptyBody EXCEPT
                                 !.status = GetStatusActions(task)[k].status])
             IN  /\ dash' = [dash EXCEPT
                               !.selectedTaskId = 0,
                               !.ops[FreeSlot(dash.ops)] =
                                   [kind |-> "status", stage |-> "sent",
                                    req |-> r, resp |-> NoResp,
                                    orphan |-> FALSE, from |-> task.status]]
                 /\ storage' = Logged(storage, r.header)
    /\ UNCHANGED <<users, tasks, nextId, req, resp, creator, isConnected>>
    /\ UNCHANGED <<peer, attempts, dialog>>

\* A click on Delete in the menu: handleTaskDeleted up to its await, and
\* handleMenuClose.
DashDelete ==
    /\ dash.mounted
    /\ dash.selectedTaskId # 0
    /\ HasFreeSlot(dash.ops)
    /\ Shown(dash.selectedTaskId) # {}
    /\ LET r == Request(storage, "DELETE", dash.selectedTaskId, EmptyBody) IN
         /\ dash' = [dash EXCEPT
                       !.selectedTaskId = 0,
                       !.ops[FreeSlot(dash.ops)] =
                           [kind |-> "delete", stage |-> "sent",
                            req |-> r, resp |-> NoResp,
                            orphan |-> FALSE, from |-> Undefined]]
         /\ storage' = Logged(storage, r.header)
    /\ UNCHANGED <<users, tasks, nextId, req, resp, creator, isConnected>>
    /\ UNCHANGED <<peer, attempts, dialog>>

\* The response of chain i reaches the client: the response interceptor,
\* then the continuation of the chain.  After a mutation that succeeded the
\* chain calls loadTasks; after GET /tasks, loadTasks sets the tasks (on
\* success) and clears loading.  A chain of an unmounted Dashboard sets no
\* state.
DashReceives ==
    \E i \in 1..MaxInFlight :
       LET op == dash.ops[i]
           s == ResponseInterceptor(storage, op.resp.code)
       IN  /\ op.stage = "answered"
           /\ IF op.req.method # "GET" /\ Resolved(op.resp)
              THEN /\ dash' = [dash EXCEPT
                                 !.loading = IF op.orphan THEN @ ELSE TRUE,
                                 !.ops[i] = LoadOp(s, op.kind, op.orphan, op.from)]
                   /\ storage' = Logged(s, RequestAuthorization(s))
              ELSE IF op.req.method = "GET" /\ ~op.orphan
              THEN /\ dash' = [dash EXCEPT
                                 !.tasks = IF Resolved(op.resp)
                                           THEN op.resp.body.tasks ELSE @,
                                 !.loading = FALSE,
                                 !.ops[i] = NoOp]
                   /\ storage' = s
              ELSE /\ dash' = [dash EXCEPT !.ops[i] = NoOp]
                   /\ storage' = s
       /\ UNCHANGED <<users, tasks, nextId, req, resp, creator, isConnected>>
       /\ UNCHANGED <<peer, attempts, dialog>>

-----------------------------------------------------------------------------
(* client/src/components/TaskDialog.tsx *)

\* formData of the task edited: dayjs(task.dueDate) parses the ISO string
\* of the response.
FormOf(task) ==
    [title |-> task.title,
     description |-> task.description,
     dueDate |-> DateParse(ToISOString(task.dueDate)),
     status |-> IF Falsy(task.status) THEN <<"pending">> ELSE task.status,
     priority |-> IF Falsy(task.priority) THEN <<"medium">> ELSE task.priority]

\* Mutant of ValidateForm: the length of the title is not checked.
ValidateFormAnyLength(form) ==
    (IF Falsy(Trim(form.title)) THEN {"title"} ELSE {})
    \cup (IF Truthy(form.description) /\ Len(form.description) > 1000
          THEN {"description"} ELSE {})
    \cup (IF form.dueDate = NullDate \/ form.dueDate = NaN
          THEN {"dueDate"} ELSE {})

\* validateForm: the fields of newErrors.
ValidateForm(form) ==
    (IF Falsy(Trim(form.title)) \/ Len(Trim(form.title)) > 200
     THEN {"title"} ELSE {})
    \cup (IF Truthy(form.description) /\ Len(form.description) > 1000
          THEN {"description"} ELSE {})
    \cup (IF form.dueDate = NullDate \/ form.dueDate = NaN
          THEN {"dueDate"} ELSE {})

\* taskData of handleSubmit
TaskData(form) ==
    Body(Trim(form.title), Trim(form.description), ToISOString(form.dueDate),
         form.status, form.priority, Undefined)

\* handleCreateTask, and the effect of the dialog on open.
DialogOpenCreate ==
    /\ dash.mounted
    /\ ~dialog.open
    /\ dialog' = [dialog EXCEPT !.open = TRUE, !.task = 0, !.form = NewForm,
                                !.errors = {}, !.apiError = FALSE]
    /\ UNCHANGED <<users, tasks, nextId, req, resp, creator, isConnected>>
    /\ UNCHANGED <<peer, attempts, dash, storage>>

\* A click on Edit in the menu: handleEditTask, handleMenuClose, and the
\* effect of the dialog on open.
DialogOpenEdit ==
    /\ dash.mounted
    /\ ~dialog.open
    /\ dash.selectedTaskId # 0
    /\ \E task \in Shown(dash.selectedTaskId) :
          dialog' = [dialog EXCEPT !.open = TRUE, !.task = task._id,
                                   !.form = FormOf(task),
                                   !.errors = {}, !.apiError = FALSE]
    /\ dash' = [dash EXCEPT !.selectedTaskId = 0]
    /\ UNCHANGED <<users, tasks, nextId, req, resp, creator, isConnected>>
    /\ UNCHANGED <<peer, attempts, storage>>

\* handleChange on a field of the form; the fields are disabled while
\* loading.
DialogChange(Titles, Descriptions, DueDates) ==
    /\ dialog.open
    /\ ~dialog.loading
    /\ \/ \E v \in Titles :
             dialog' = [dialog EXCEPT !.form.title = v,
                                      !.errors = @ \ {"title"}]
       \/ \E v \in Descriptions :
             dialog' = [dialog EXCEPT !.form.description = v,
                                      !.errors = @ \ {"description"}]
       \/ \E v \in DueDates :
             dialog' = [dialog EXCEPT !.form.dueDate = v,
                                      !.errors = @ \ {"dueDate"}]
    /\ dialog' # dialog
    /\ UNCHANGED <<users, tasks, nextId, req, resp, creator, isConnected>>
    /\ UNCHANGED <<peer, attempts, dash, storage>>

\* handleSubmit up to its await; the button is disabled while loading.
DialogSubmit ==
    /\ dialog.open
    /\ ~dialog.loading
    /\ LET newErrors == ValidateForm(dialog.form)
           r == Request(storage, IF dialog.task # 0 THEN "PUT" ELSE "POST",
                        dialog.task, TaskData(dialog.form))
       IN  IF newErrors # {}
           THEN /\ dialog' = [dialog EXCEPT !.errors = newErrors,
                                            !.apiError = FALSE]
                /\ storage' = storage
           ELSE /\ dialog' = [dialog EXCEPT !.errors = {}, !.apiError = FALSE,
                                            !.loading = TRUE, !.stage = "sent",
                                            !.req = r, !.resp = NoResp]
                /\ storage' = Logged(storage, r.header)
    /\ UNCHANGED <<users, tasks, nextId, req, resp, creator, isConnected>>
    /\ UNCHANGED <<peer, attempts, dash>>

\* handleClose, on Cancel, Escape or a click outside: handleCloseDialog
\* unless loading.
DialogClose ==
    /\ dialog.open
    /\ dialog' = IF ~dialog.loading
                 THEN [dialog EXCEPT !.open = FALSE, !.task = 0]
                 ELSE dialog
    /\ UNCHANGED <<users, tasks, nextId, req, resp, creator, isConnected>>
    /\ UNCHANGED <<peer, attempts, dash, storage>>

\* The response of the dialog's request reaches the client: the response
\* interceptor, then the rest of handleSubmit.  On success onSave
\* (handleTaskSaved) closes the dialog and calls loadTasks; on failure
\* apiError is set; loading is cleared in both cases.
DialogReceives ==
    LET s == ResponseInterceptor(storage, dialog.resp.code) IN
      /\ dialog.stage = "answered"
      /\ IF Resolved(dialog.resp)
         THEN /\ HasFreeSlot(dash.ops)
              /\ dialog' = [dialog EXCEPT !.open = FALSE, !.task = 0,
                                          !.loading = FALSE, !.stage = "idle",
                                          !.req = NoReq, !.resp = NoResp]
              /\ dash' = LoadTasks(dash, s, "saved")
              /\ storage' = Logged(s, RequestAuthorization(s))
         ELSE /\ dialog' = [dialog EXCEPT !.apiError = TRUE,
                                          !.loading = FALSE, !.stage = "idle",
                                          !.req = NoReq, !.resp = NoResp]
              /\ dash' = dash
              /\ storage' = s
      /\ UNCHANGED <<users, tasks, nextId, req, resp, creator, isConnected>>
      /\ UNCHANGED <<peer, attempts>>

-----------------------------------------------------------------------------
(* The requests of the main specification: two users, several tasks, few    *)
(* values per field.                                                        *)

TitleA == <<" ", "a", " ">>
Date2030 == <<"2", "0", "3", "0">>
Date2031 == <<"2", "0", "3", "1">>
NotADate == <<"x">>

PostBodies ==
    {Body(t, Undefined, du, Undefined, Undefined, Undefined) :
        t \in {Undefined, <<>>, <<" ">>, TitleA},
        du \in {Undefined, NotADate, Date2030}}
    \cup
    {Body(TitleA, Undefined, Date2030, st, pr, uid) :
        st \in {Undefined, <<>>, <<"completed">>, <<"done">>},
        pr \in {Undefined, <<"urgent">>},
        uid \in {Undefined, <<"u2">>}}

PutBodies ==
    {Body(Undefined, Undefined, Undefined, st, Undefined, uid) :
        st \in {Undefined, <<>>, <<"completed">>, <<"done">>},
        uid \in {Undefined, <<"u1">>}}
    \cup
    {Body(Undefined, Undefined, NotADate, st, Undefined, Undefined) :
        st \in {Undefined, <<"completed">>}}
    \cup
    {Body(<<" ">>, Undefined, Undefined, Undefined, Undefined, Undefined),
     Body(Undefined, Undefined, Undefined, Undefined, <<"urgent">>, Undefined)}

PatchBodies ==
    {Body(Undefined, Undefined, Undefined, st, Undefined, Undefined) :
        st \in {Undefined, <<>>, <<"pending">>, <<"in-progress">>, <<"done">>}}

Queries ==
    {Query(st, Undefined, o) :
        st \in {Undefined, <<"completed">>}, o \in {Undefined, <<"desc">>}}

Next ==
    \/ Arrive(Headers)
    \/ AuthGate
    \/ RouteList(Queries)
    \/ RouteGet
    \/ RoutePost(PostBodies, MaxTasks)
    \/ RoutePut(PutBodies)
    \/ PutSave
    \/ RouteDelete
    \/ RoutePatch(PatchBodies)
    \/ DeleteUser

Spec == Init /\ [][Next]_vars

-----------------------------------------------------------------------------
(* The requests of the create specification: authenticated users create and *)
(* fetch tasks, with many values per field.                                 *)

AuthHeaders == {BearerPrefix \o <<"A">>, BearerPrefix \o <<"B">>}

CreateBodies ==
    {Body(t, de, du, st, pr, uid) :
        t \in {Undefined, TitleA, <<"b">>},
        de \in {Undefined, <<" ", "d">>},
        du \in {Undefined, NotADate, Date2030, Date2031 \o IsoSuffix},
        st \in {Undefined, <<"in-progress">>, <<"done">>},
        pr \in {Undefined, <<"high">>},
        uid \in {Undefined, <<"u2">>}}

NextCreate ==
    \/ Arrive(AuthHeaders)
    \/ AuthGate
    \/ RoutePost(CreateBodies, MaxCreated)
    \/ RouteGet

SpecCreate == Init /\ [][NextCreate]_vars

-----------------------------------------------------------------------------
(* The requests of the update specification: authenticated users create a   *)
(* task and update it, with many values per field of the PUT body.          *)

\* Number of task identifiers the store can assign under this specification.
MaxUpdated == 1

SeedBodies ==
    {Body(<<"b">>, de, du, Undefined, Undefined, Undefined) :
        de \in {Undefined, <<"d">>}, du \in {NotADate, Date2030}}

UpdateBodies ==
    {Body(t, de, du, st, pr, Undefined) :
        t \in {Undefined, <<>>, <<" ", "c">>},
        de \in {Undefined, <<>>, <<"e", " ">>},
        du \in {Undefined, <<>>, NotADate, Date2031},
        st \in {Undefined, <<"completed">>},
        pr \in {Undefined, <<"high">>}}

NextUpdate ==
    \/ Arrive(AuthHeaders)
    \/ AuthGate
    \/ RoutePost(SeedBodies, MaxUpdated)
    \/ RoutePut(UpdateBodies)
    \/ PutSave
    \/ RoutePatch(PatchBodies)

SpecUpdate == Init /\ [][NextUpdate]_vars

-----------------------------------------------------------------------------
(* The requests of the list specification: authenticated users create tasks *)
(* with different titles, dates and statuses and list them.                 *)

\* Number of task identifiers the store can assign under this specification.
MaxListed == 2

ListedBodies ==
    {Body(t, Undefined, du, st, Undefined, Undefined) :
        t \in {<<"a">>, <<"b">>},
        du \in {Date2030, Date2031},
        st \in {Undefined, <<"completed">>}}

ListQueries ==
    {Query(st, sb, o) :
        st \in {Undefined, <<>>, <<"completed">>, <<"done">>},
        sb \in {Undefined, <<"title">>},
        o \in {Undefined, <<"asc">>, <<"desc">>, <<"DESC">>}}

NextList ==
    \/ Arrive(AuthHeaders)
    \/ AuthGate
    \/ RoutePost(ListedBodies, MaxListed)
    \/ RouteList(ListQueries)

SpecList == Init /\ [][NextList]_vars

-----------------------------------------------------------------------------
(* The requests of the server specification: every task route, and the      *)
(* requests server.js answers itself.                                       *)

Paths == {<<"/">>, <<"/", "a", "p", "i", "/", "x">>}

Errors ==
    {[status |-> 400, message |-> "Unexpected token", stack |-> "SyntaxError"],
     [status |-> 0, message |-> "", stack |-> "Error"]}

NodeEnvs == {"development", "production"}

NextServer ==
    \/ Arrive(Headers)
    \/ AuthGate
    \/ RouteList(Queries)
    \/ RouteGet
    \/ RoutePost(PostBodies, MaxCreated)
    \/ RoutePut(PutBodies)
    \/ PutSave
    \/ RouteDelete
    \/ RoutePatch(PatchBodies)
    \/ UnknownRoute(Paths)
    \/ GlobalErrorHandler(Errors, NodeEnvs)
    \/ ConnectFails

SpecServer == Init /\ [][NextServer]_vars

-----------------------------------------------------------------------------
(* The requests of the connection specification: requests enter the        *)
(* serverless handler while earlier connection attempts are pending, and    *)
(* those the app receives list and create tasks.                            *)

\* Number of calls of mongoose.connect under this specification.
MaxConnects == 3

NextConnect ==
    \/ EnterConnect(MaxConnects)
    \/ ConnectResolves(AuthHeaders)
    \/ ConnectRejects
    \/ (isConnected /\ Arrive(AuthHeaders))
    \/ AuthGate
    \/ RouteList(Queries)
    \/ RoutePost(SeedBodies, MaxUpdated)

SpecConnect == Init /\ [][NextConnect]_vars

-----------------------------------------------------------------------------
(* The requests of the status specification: authenticated users create a   *)
(* task and move its status with PATCH and PUT.                             *)

\* Number of task identifiers the store can assign under this specification.
MaxMoved == 1

MovedBodies ==
    {Body(<<"a">>, Undefined, Date2030, st, Undefined, Undefined) :
        st \in {Undefined, <<"in-progress">>, <<"completed">>}}

MoveBodies ==
    {Body(Undefined, Undefined, Undefined, st, Undefined, uid) :
        st \in StatusEnum, uid \in {Undefined, <<"u2">>}}

NextStatus ==
    \/ Arrive(AuthHeaders)
    \/ AuthGate
    \/ RoutePost(MovedBodies, MaxMoved)
    \/ RoutePatch(MoveBodies)
    \/ RoutePut(MoveBodies)
    \/ PutSave

SpecStatus == Init /\ [][NextStatus]_vars

-----------------------------------------------------------------------------
(* The requests of the race specification: one user creates a task and      *)
(* sends PUT and DELETE requests on it two at a time.                       *)

\* Number of task identifiers the store can assign under this specification.
MaxRaced == 1

OwnerHeaders == {BearerPrefix \o <<"A">>, BearerPrefix \o <<"E">>}

RacedBodies == {Body(<<"a">>, Undefined, Date2030, Undefined, Undefined, Undefined)}

RaceBodies ==
    {Body(Undefined, Undefined, Undefined, <<"completed">>, Undefined, Undefined),
     Body(Undefined, Undefined, Undefined, <<"pending">>, Undefined, Undefined),
     Body(<<"c">>, Undefined, Undefined, <<"completed">>, Undefined, Undefined),
     Body(<<"d">>, <<"d">>, Undefined, Undefined, Undefined, Undefined)}

NextRace ==
    \/ Arrive(OwnerHeaders)
    \/ AuthGate
    \/ RoutePost(RacedBodies, MaxRaced)
    \/ RoutePut(RaceBodies)
    \/ PutSave
    \/ PeerPut(OwnerHeaders, RaceBodies)
    \/ PeerSave
    \/ PeerDelete(OwnerHeaders)

SpecRace == Init /\ [][NextRace]_vars

-----------------------------------------------------------------------------
(* The Dashboard specification: one user logs in, creates a task in the     *)
(* dialog and, from the menu of the list, changes its status, edits it and  *)
(* deletes it, several requests at a time.                                  *)

LoginTokens == {<<"A">>}

DashTitles == {<<"a">>}

NextDash ==
    \/ Login(LoginTokens)
    \/ DashMount
    \/ DashMenuOpen
    \/ DashMenuClose
    \/ DashStatusChange
    \/ DashDelete
    \/ ServerAnswers
    \/ DashReceives
    \/ DialogOpenCreate
    \/ DialogChange(DashTitles, {}, {})
    \/ DialogSubmit
    \/ ServerAnswersDialog(MaxShown)
    \/ DialogReceives

SpecDash == Init /\ [][NextDash]_vars

-----------------------------------------------------------------------------
(* The session specification: a user logs in with a live token or with one  *)
(* that expires before it is used, works on the Dashboard, logs out and     *)
(* logs in again; user documents are removed meanwhile.                     *)

SessionTokens == {<<"A">>, <<"E">>}

NextSession ==
    \/ Login(SessionTokens)
    \/ DashMount
    \/ Logout
    \/ PageLoad
    \/ ServerAnswers
    \/ DashReceives
    \/ DialogOpenCreate
    \/ DialogChange(DashTitles, {}, {})
    \/ DialogSubmit
    \/ ServerAnswersDialog(MaxShown)
    \/ DialogReceives
    \/ DeleteUser

SpecSession == Init /\ [][NextSession]_vars

-----------------------------------------------------------------------------
(* The dialog specification: a user with a live or an expired token        *)
(* creates and edits a task, with titles and descriptions at both sides of  *)
(* the length limits and due dates that are valid, invalid and missing.     *)

\* c repeated n times
Repeat(c, n) == [i \in 1..n |-> c]

DialogTitles ==
    {<<" ">>, <<" ">> \o Repeat("a", 200), Repeat("a", 201)}

DialogDescriptions ==
    {Repeat("d", 1000), Repeat("d", 1000) \o <<" ">>}

DialogDueDates == {NullDate, NaN}

NextDialog ==
    \/ Login(SessionTokens)
    \/ DashMount
    \/ DashMenuOpen
    \/ ServerAnswers
    \/ DashReceives
    \/ DialogOpenCreate
    \/ DialogOpenEdit
    \/ DialogChange(DialogTitles, DialogDescriptions, DialogDueDates)
    \/ DialogSubmit
    \/ DialogClose
    \/ ServerAnswersDialog(MaxShown)
    \/ DialogReceives

SpecDialog == Init /\ [][NextDialog]_vars

-----------------------------------------------------------------------------
(* Steps, as the properties below name them *)

\* The gate runs.
GateStep == req.pc = "gate" /\ req'.pc # "gate"

\* A step of a task handler: a route is entered, a response of a route is
\* sent, or the Task collection changes.
TaskHandlerStep ==
    \/ req'.method # "none" /\ (req'.method # req.method \/ req'.pc # req.pc)
    \/ tasks' # tasks
    \/ nextId' # nextId

\* The step that sends the response of a task route.
AnswerStep == req.pc \in {"authed", "saving"} /\ req'.pc = "done"

\* An identifier the store never assigns: the identifier of no task.
NeverAssignedId == MaxTasks + 1

-----------------------------------------------------------------------------
(* C1 *)

\* The tasks the last response of GET /tasks or GET /tasks/:id returned.
ReturnedTasks ==
    IF req.pc = "done" /\ req.method = "GET" /\ resp.code = 200
    THEN {resp.body.task}
    ELSE IF req.pc = "done" /\ req.method = "LIST" /\ resp.code = 200
    THEN {resp.body.tasks[i] : i \in DOMAIN resp.body.tasks}
    ELSE {}

C1_ReadsOwn ==
    \A t \in ReturnedTasks :
        t._id \in DOMAIN creator /\ creator[t._id] = ReqUser._id

C1_WritesOwn ==
    /\ \A d \in tasks \ tasks' :
          req.user # {} /\ creator[d._id] = ReqUser._id
    /\ \A d \in tasks' \ tasks :
          req.user # {} /\ creator'[d._id] = ReqUser._id

\* C1: every task a GET /tasks or GET /tasks/:id returns to a user was
\* created by that user, and every step that changes, removes or adds a
\* task document touches only documents created by the user the request is
\* authenticated as, whatever identifier the request carries.
C1_OwnerScoped == [][C1_WritesOwn /\ C1_ReadsOwn']_vars

\* A PUT, PATCH or DELETE naming the task of another user was answered 404
\* and the task is still stored.
C1_Witness ==
    /\ req.pc = "done"
    /\ req.method \in {"PUT", "PATCH", "DELETE"}
    /\ resp.code = 404
    /\ \E d \in tasks : d._id = req.id /\ creator[d._id] # ReqUser._id

-----------------------------------------------------------------------------
(* C2 *)

NotFoundResponse == Json(404, [message |-> "Task not found"])

\* C2: for every stored task and every user other than its owner, the
\* response of GET /tasks/:id to that user is 404 "Task not found", the very
\* response the user gets for an identifier of no task; the response
\* recorded for such a request is that one, never 200 or 403.
C2_ForeignIsNotFound ==
    /\ \A d \in tasks : \A u \in AllUsers :
          u._id # d.userId =>
             /\ GetTask(tasks, users, SelectPublic(u), d._id) = NotFoundResponse
             /\ GetTask(tasks, users, SelectPublic(u), d._id)
                  = GetTask(tasks, users, SelectPublic(u), NeverAssignedId)
    /\ ( /\ req.pc = "done"
         /\ req.method = "GET"
         /\ \E d \in tasks : d._id = req.id /\ d.userId # ReqUser._id )
       => resp = NotFoundResponse

\* A GET of another user's stored task was answered 404.
C2_Witness ==
    /\ req.pc = "done"
    /\ req.method = "GET"
    /\ resp.code = 404
    /\ \E d \in tasks : d._id = req.id /\ d.userId # ReqUser._id

-----------------------------------------------------------------------------
(* C3 *)

\* C3: a task handler step happens only in a request the gate has passed,
\* after jwt.verify and the user lookup ran and a user was attached; a gate
\* that passes attaches a user document of the User collection and sends
\* nothing; a gate that rejects sends 401, attaches nothing and ends the
\* request; and nothing but the gate passes a request on to the routes.
C3_GateBeforeHandler ==
    [][ /\ TaskHandlerStep =>
              /\ req.pc \in {"authed", "saving"}
              /\ req.verified /\ req.userRead
              /\ req.user # {}
        /\ (GateStep /\ req'.pc = "authed") =>
              /\ req'.user # {}
              /\ req'.user \subseteq {SelectPublic(d) : d \in users}
              /\ resp' = NoResp
        /\ (GateStep /\ req'.pc # "authed") =>
              /\ req'.pc = "done"
              /\ resp'.code = 401
              /\ req'.user = {}
        /\ (req'.pc = "authed" /\ req.pc # "authed") => req.pc = "gate"
      ]_vars

\* A task was created by a request that went through the gate.
C3_Witness ==
    /\ req.pc = "done"
    /\ req.method = "POST"
    /\ resp.code = 201
    /\ req.verified /\ req.userRead /\ req.user # {}

-----------------------------------------------------------------------------
(* C4 *)

\* The header is "Bearer " followed by a non-empty token.
BearerForm(h) ==
    /\ h # Undefined
    /\ Len(h) > 7
    /\ SubSeq(h, 1, 7) = <<"B", "e", "a", "r", "e", "r", " ">>

\* C4: a request whose Authorization header is absent or is not "Bearer "
\* followed by a non-empty token is answered 401 by the gate, reaches no
\* route, and neither jwt.verify nor the user lookup ran for it.
C4_MalformedHeader401 ==
    (req.pc \notin {"idle", "gate"} /\ ~BearerForm(req.header)) =>
        /\ req.pc = "done"
        /\ req.method = "none"
        /\ resp.code = 401
        /\ ~req.verified
        /\ ~req.userRead

\* The header that is exactly "Bearer " was rejected.
C4_Witness ==
    /\ req.pc = "done"
    /\ req.header = <<"B", "e", "a", "r", "e", "r", " ">>
    /\ resp.code = 401

-----------------------------------------------------------------------------
(* C5 *)

\* The token of a header of the Bearer form.
TokenOf(h) == SubSeq(h, 8, Len(h))

\* The gate rejected the request with this status and message.
GateRejectedWith(code, message) ==
    /\ req.pc = "done"
    /\ req.method = "none"
    /\ resp = Json(code, [message |-> message])

\* The gate has run on a header carrying a token.
GateRanOnToken == req.pc \notin {"idle", "gate"} /\ BearerForm(req.header)

\* C5 as stated: every token past its expiry is rejected 401 with the
\* "expired" reason, every token with an invalid signature is rejected 401
\* with another reason.
C5_ExpiredReasonForAll ==
    GateRanOnToken =>
        LET t == TokenOf(req.header) IN
        /\ TokenPastExpiry(t) => GateRejectedWith(401, "Token has expired")
        /\ ~TokenSigned(t) =>
              /\ req.pc = "done" /\ req.method = "none" /\ resp.code = 401
              /\ resp.body.message # "Token has expired"

\* C5, amended: every correctly signed token past its expiry is rejected 401
\* "Token has expired"; every token with an invalid signature, past its
\* expiry or not, is rejected 401 "Token is not valid".
C5_ExpiredReasonForSigned ==
    GateRanOnToken =>
        LET t == TokenOf(req.header) IN
        /\ (TokenSigned(t) /\ TokenPastExpiry(t)) =>
              GateRejectedWith(401, "Token has expired")
        /\ ~TokenSigned(t) => GateRejectedWith(401, "Token is not valid")

\* A correctly signed token past its expiry was rejected as expired.
C5_Witness ==
    /\ GateRanOnToken
    /\ TokenSigned(TokenOf(req.header))
    /\ TokenPastExpiry(TokenOf(req.header))
    /\ GateRejectedWith(401, "Token has expired")

-----------------------------------------------------------------------------
(* C6 *)

\* The header carries a correctly signed, unexpired token of a user whose
\* document is not in the User collection.
LiveTokenOfDeletedUser ==
    /\ BearerForm(req.header)
    /\ TokenSigned(TokenOf(req.header))
    /\ ~TokenPastExpiry(TokenOf(req.header))
    /\ \A d \in users : d._id # TokenUserId(TokenOf(req.header))

\* C6: whenever the gate runs on a correctly signed, unexpired token whose
\* user is gone from the User collection, it rejects with 401 and attaches
\* no identity; a removed user never comes back, so this is every request
\* after the deletion.
C6_DeletedUserRejected ==
    [][ /\ (GateStep /\ LiveTokenOfDeletedUser) =>
              /\ req'.pc = "done"
              /\ resp'.code = 401
              /\ req'.user = {}
        /\ users' \subseteq users
      ]_vars

\* The token of u1, under which a task was created earlier, is rejected
\* after u1 was deleted.
C6_Witness ==
    /\ req.pc = "done"
    /\ req.method = "none"
    /\ req.header = BearerPrefix \o <<"A">>
    /\ resp.code = 401
    /\ UserDoc("u1") \notin users
    /\ \E i \in DOMAIN creator : creator[i] = "u1"

-----------------------------------------------------------------------------
(* C7 *)

\* C7: a run of the gate leaves the User and Task collections as they were,
\* and the gate run again on the same request in the state the first run
\* left gives the outcome the first run gave: the same rejection, or the
\* same attached identity.
C7_GateIsPure ==
    [][ GateStep =>
          /\ users' = users
          /\ tasks' = tasks
          /\ nextId' = nextId
          /\ LET again == AuthMiddleware(req'.header, users') IN
               /\ again.next <=> req'.pc = "authed"
               /\ again.user = req'.user
               /\ ~again.next =>
                     resp' = Json(again.code, [message |-> again.message])
      ]_vars

\* The gate passed a request while tasks are stored and a user is deleted.
C7_Witness ==
    /\ req.pc = "authed"
    /\ tasks # {}
    /\ users # AllUsers

-----------------------------------------------------------------------------
(* C8 *)

\* Absent from the body (an empty string counts as absent).
Missing(v) == v = Undefined \/ v = <<>>

\* The date strings that denote an instant: a year, or a year followed by
\* "-01-01T00:00:00.000Z".
ValidInstant(s) ==
    \E y \in {<<"2", "0", "3", "0">>, <<"2", "0", "3", "1">>} :
        \/ s = y
        \/ s = y \o <<"-", "0", "1", "-", "0", "1", "T", "0", "0", ":", "0", "0",
                      ":", "0", "0", ".", "0", "0", "0", "Z">>

\* C8: a POST /tasks whose title is missing, whose dueDate is missing or
\* whose dueDate denotes no instant is answered 400, and the Task collection
\* after it is the Task collection before it.
C8_InvalidCreateRejected ==
    [][ ( /\ AnswerStep
          /\ req'.method = "POST"
          /\ \/ Missing(req'.body.title)
             \/ Missing(req'.body.dueDate)
             \/ ~ValidInstant(req'.body.dueDate) ) =>
          /\ resp'.code = 400
          /\ tasks' = tasks
          /\ nextId' = nextId
      ]_vars

\* A POST with a title and an unparsable dueDate was answered 400 while a
\* task was stored.
C8_Witness ==
    /\ req.pc = "done"
    /\ req.method = "POST"
    /\ ~Missing(req.body.title)
    /\ req.body.dueDate = <<"x">>
    /\ resp.code = 400
    /\ tasks # {}

-----------------------------------------------------------------------------
(* C9 *)

\* C9: a POST /tasks answered 201 adds exactly one document to the Task
\* collection and changes no other; the document has a fresh _id, its owner
\* is the authenticated caller whatever userId the body carries, its status
\* is 'pending', its priority 'medium' and its description '' when the body
\* omits them, and the response carries that document.
C9_CreateDefaults ==
    [][ (AnswerStep /\ req'.method = "POST" /\ resp'.code = 201) =>
          /\ tasks \subseteq tasks'
          /\ Cardinality(tasks' \ tasks) = 1
          /\ LET d == CHOOSE x \in tasks' \ tasks : TRUE
                 b == req'.body
             IN  /\ \A x \in tasks : x._id # d._id
                 /\ d.userId = ReqUser._id
                 /\ b.status = Undefined => d.status = <<"pending">>
                 /\ b.priority = Undefined => d.priority = <<"medium">>
                 /\ b.description = Undefined => d.description = <<>>
                 /\ \A f \in DOMAIN d \ {"userId"} : resp'.body.task[f] = d[f]
                 /\ \A o \in resp'.body.task.userId : o._id = ReqUser._id
      ]_vars

\* u1 created a task with a body that names u2 as userId and omits status,
\* priority and description.
C9_Witness ==
    /\ req.pc = "done"
    /\ req.method = "POST"
    /\ resp.code = 201
    /\ ReqUser._id = "u1"
    /\ req.body.userId = <<"u2">>
    /\ req.body.status = Undefined
    /\ req.body.priority = Undefined
    /\ req.body.description = Undefined
    /\ \E d \in tasks : d.userId = "u1" /\ d.status = <<"pending">>

-----------------------------------------------------------------------------
(* C10 *)

\* The body carries a status or a priority outside the enumerations.
CarriesOtherValue(b) ==
    \/ b.status # Undefined
         /\ b.status \notin {<<"pending">>, <<"in-progress">>, <<"completed">>}
    \/ b.priority # Undefined
         /\ b.priority \notin {<<"low">>, <<"medium">>, <<"high">>}

\* C10 as stated: every stored task has its status in {pending, in-progress,
\* completed} and its priority in {low, medium, high}, and a create, update
\* or updateStatus request that carries any other value for status or
\* priority is rejected (an error status) and leaves the Task collection as
\* it was.
C10_ClosedEnums ==
    [][ /\ \A d \in tasks' :
              /\ d.status \in {<<"pending">>, <<"in-progress">>, <<"completed">>}
              /\ d.priority \in {<<"low">>, <<"medium">>, <<"high">>}
        /\ ( /\ AnswerStep
             /\ req'.method \in {"POST", "PUT", "PATCH"}
             /\ CarriesOtherValue(req'.body) ) =>
              /\ resp'.code >= 400
              /\ tasks' = tasks
      ]_vars

-----------------------------------------------------------------------------
(* C11 *)

\* C11 as stated: a PATCH /tasks/:id/status whose status is missing, or is
\* a value outside {pending, in-progress, completed}, is answered 400 and
\* leaves the Task collection as it was.
C11_PatchInvalid400 ==
    [][ ( /\ AnswerStep
          /\ req'.method = "PATCH"
          /\ \/ Missing(req'.body.status)
             \/ req'.body.status
                  \notin {<<"pending">>, <<"in-progress">>, <<"completed">>} ) =>
          /\ resp'.code = 400
          /\ tasks' = tasks
      ]_vars

-----------------------------------------------------------------------------
(* C12 *)

\* The body carries a dueDate that denotes no instant.
UnparsableDueDate(b) == ~Missing(b.dueDate) /\ ~ValidInstant(b.dueDate)

\* C12: after every step, every stored task has a dueDate that is a valid
\* instant, and a POST /tasks or PUT /tasks/:id whose body carries a dueDate
\* that denotes no instant is rejected (400, or 404 when the PUT names no
\* task of the caller) with the Task collection left as it was.
C12_DueDateValid ==
    [][ /\ \A d \in tasks' : d.dueDate # NaN /\ d.dueDate \in {2030, 2031}
        /\ ( /\ AnswerStep
             /\ req'.method \in {"POST", "PUT"}
             /\ UnparsableDueDate(req'.body) ) =>
              /\ resp'.code \in {400, 404}
              /\ req'.method = "POST" => resp'.code = 400
              /\ tasks' = tasks
      ]_vars

\* A PUT replaced the dueDate of a stored task by another valid instant.
C12_Witness ==
    /\ req.pc = "done"
    /\ req.method = "PUT"
    /\ resp.code = 200
    /\ req.body.dueDate = <<"2", "0", "3", "1">>
    /\ \E o \in req.orig : o.dueDate = 2030
    /\ \E d \in tasks : d._id = req.id /\ d.dueDate = 2031

-----------------------------------------------------------------------------
(* C13 *)

\* The fields of a task a PUT body can name.
BodyFields == {"title", "description", "dueDate", "status", "priority"}

\* The step that ends a PUT with its response.
PutAnswerStep ==
    /\ req.pc \in {"authed", "saving"}
    /\ req'.pc = "done"
    /\ req'.method = "PUT"

\* C13: a PUT /tasks/:id answered 200 changes the task it names and no
\* other; every field among title, description, dueDate, status and priority
\* that the body does not carry keeps its value, the _id and the owner keep
\* theirs, a body whose description is "" leaves the description empty, and
\* the response carries the stored fields.  A PUT answered otherwise changes
\* nothing.
C13_OnlyProvidedFields ==
    [][ /\ (PutAnswerStep /\ resp'.code = 200) =>
              /\ \E old \in tasks : \E new \in tasks' :
                    /\ old._id = req'.id
                    /\ new._id = old._id
                    /\ new.userId = old.userId
                    /\ new.userId = ReqUser._id
                    /\ tasks' \ {new} = tasks \ {old}
                    /\ \A f \in BodyFields :
                          req'.body[f] = Undefined => new[f] = old[f]
                    /\ req'.body.description = <<>> => new.description = <<>>
                    /\ \A f \in BodyFields : resp'.body.task[f] = new[f]
        /\ (PutAnswerStep /\ resp'.code # 200) => tasks' = tasks
      ]_vars

\* A PUT whose body is only {description: ""} emptied the description of a
\* task that had one and kept its title, dueDate, status and priority.
C13_Witness ==
    /\ req.pc = "done"
    /\ req.method = "PUT"
    /\ resp.code = 200
    /\ req.body = [title |-> Undefined, description |-> <<>>,
                   dueDate |-> Undefined, status |-> Undefined,
                   priority |-> Undefined, userId |-> Undefined]
    /\ \E o \in req.orig : \E d \in tasks :
          /\ d._id = req.id
          /\ o.description # <<>>
          /\ d.description = <<>>
          /\ d.title = o.title /\ d.dueDate = o.dueDate
          /\ d.status = o.status /\ d.priority = o.priority

-----------------------------------------------------------------------------
(* C14 *)

\* C14: a PUT /tasks/:id that names a task of the caller and carries a
\* dueDate that denotes no instant ends at once with 400, whatever else the
\* body carries, and the Task collection is left as it was.
C14_BadDateRejectsWhole ==
    [][ ( /\ req.pc = "authed"
          /\ req'.pc # "authed"
          /\ req'.method = "PUT"
          /\ UnparsableDueDate(req'.body)
          /\ \E d \in tasks : d._id = req'.id /\ d.userId = ReqUser._id ) =>
          /\ req'.pc = "done"
          /\ resp'.code = 400
          /\ tasks' = tasks
      ]_vars

\* A PUT with an unparsable dueDate and a valid title, description, status
\* and priority was answered 400 and the task kept its status.
C14_Witness ==
    /\ req.pc = "done"
    /\ req.method = "PUT"
    /\ resp.code = 400
    /\ req.body.dueDate = <<"x">>
    /\ req.body.title = <<" ", "c">>
    /\ req.body.description = <<"e", " ">>
    /\ req.body.status = <<"completed">>
    /\ req.body.priority = <<"high">>
    /\ \E d \in tasks :
          /\ d._id = req.id /\ d.userId = ReqUser._id
          /\ d.status = <<"pending">> /\ d.title = <<"b">>

-----------------------------------------------------------------------------
(* C15 *)

\* The identifiers the store assigned to tasks that are no longer stored.
DeletedIds == {i \in 1..(nextId - 1) : \A d \in tasks : d._id # i}

\* The step that ends a DELETE with its response.
DeleteAnswerStep == AnswerStep /\ req'.method = "DELETE"

\* The tasks of the caller that the request names.
OwnedNamed == {d \in tasks : d._id = req'.id /\ d.userId = ReqUser._id}

\* A DELETE that names a task of the caller removes that task and no other
\* and answers 200 with the removed document; a deleted identifier stays
\* deleted.
C15_RemovesExactlyOne ==
    /\ (DeleteAnswerStep /\ OwnedNamed # {}) =>
          /\ resp'.code = 200
          /\ resp'.body.task \in OwnedNamed
          /\ tasks' = tasks \ {resp'.body.task}
    /\ DeletedIds \subseteq DeletedIds'

\* C15 as stated: DELETE by the owner removes exactly that task and answers
\* 200 with it; afterwards every GET, PUT, PATCH or DELETE on that id by any
\* user is answered 404; a DELETE of an id that matches no task of the
\* caller is answered 404 and removes nothing.
C15_DeletedIs404ForAll ==
    [][ /\ C15_RemovesExactlyOne
        /\ ( /\ AnswerStep
             /\ req'.method \in {"GET", "PUT", "PATCH", "DELETE"}
             /\ req'.id \in DeletedIds ) =>
              /\ resp'.code = 404
              /\ tasks' = tasks
        /\ (DeleteAnswerStep /\ OwnedNamed = {}) =>
              /\ resp'.code = 404
              /\ tasks' = tasks
      ]_vars

\* C15, amended: DELETE by the owner removes exactly that task and answers
\* 200 with it; afterwards every GET, PUT or DELETE on that id, and every
\* PATCH on it that carries a status of the enumeration, by any user is
\* answered 404; a DELETE of a well-formed id that matches no task of the
\* caller is answered 404, and every DELETE that matches none removes
\* nothing.
C15_DeletedIs404 ==
    [][ /\ C15_RemovesExactlyOne
        /\ ( /\ AnswerStep
             /\ \/ req'.method \in {"GET", "PUT", "DELETE"}
                \/ /\ req'.method = "PATCH"
                   /\ req'.body.status
                        \in {<<"pending">>, <<"in-progress">>, <<"completed">>}
             /\ req'.id \in DeletedIds ) =>
              /\ resp'.code = 404
              /\ tasks' = tasks
        /\ (DeleteAnswerStep /\ OwnedNamed = {}) =>
              /\ req'.id # 0 => resp'.code = 404
              /\ tasks' = tasks
      ]_vars

\* After u1 deleted its task while another task stayed stored, a PATCH by
\* u2 on the deleted id was answered 404.
C15_Witness ==
    /\ req.pc = "done"
    /\ req.method = "PATCH"
    /\ req.body.status = <<"in-progress">>
    /\ req.id \in DeletedIds
    /\ creator[req.id] = "u1"
    /\ ReqUser._id = "u2"
    /\ resp.code = 404
    /\ tasks # {}

-----------------------------------------------------------------------------
(* C16 *)

\* The body {status: s}
StatusBody(s) ==
    [title |-> Undefined, description |-> Undefined, dueDate |-> Undefined,
     status |-> s, priority |-> Undefined, userId |-> Undefined]

\* PATCH {status: s} sent twice in a row by user u on task d of the store:
\* both are answered 200 and the second leaves the store, and the task it
\* returns, as the first left them.
TwiceIsOnce(store, userStore, nid, u, d, s) ==
    LET first == PatchStatus(store, userStore, nid, u, d._id, StatusBody(s))
        second == PatchStatus(first.tasks, userStore, first.nextId, u, d._id,
                              StatusBody(s))
    IN  /\ first.resp.code = 200
        /\ second.resp.code = 200
        /\ second.tasks = first.tasks
        /\ second.resp.body.task = first.resp.body.task
        /\ \E t \in second.tasks :
              t = [d EXCEPT !.status = s]

-----------------------------------------------------------------------------
(* C17 *)

\* The response of GET /tasks/:id by the caller of the last request on the
\* task the last response carries.
FetchCreated == GetTask(tasks, users, ReqUser, resp.body.task._id)

\* C17: once a POST /tasks is answered 201, a GET /tasks/:id by the same
\* user on the returned id is answered 200 with the title and the
\* description that were sent, trimmed ('' for a description not sent), a
\* dueDate whose ISO form denotes the instant of the dueDate that was sent,
\* and the status and priority that were sent, or 'pending' and 'medium'.
C17_CreateThenFetch ==
    (req.pc = "done" /\ req.method = "POST" /\ resp.code = 201) =>
        /\ FetchCreated.code = 200
        /\ LET t == FetchCreated.body.task
               b == req.body
           IN  /\ t.title = Trim(b.title)
               /\ t.description = IF Missing(b.description) THEN <<>>
                                  ELSE Trim(b.description)
               /\ DateParse(ToISOString(t.dueDate)) = DateParse(b.dueDate)
               /\ ValidInstant(SubSeq(ToISOString(t.dueDate), 1, 4))
               /\ t.status = IF Missing(b.status) THEN <<"pending">>
                             ELSE b.status
               /\ t.priority = IF Missing(b.priority) THEN <<"medium">>
                               ELSE b.priority

\* A task sent with the title " a ", the description " d", an ISO dueDate
\* and the status 'in-progress' was created, and the fetch gives "a", "d"
\* and 'in-progress'.
C17_Witness ==
    /\ req.pc = "done"
    /\ req.method = "POST"
    /\ resp.code = 201
    /\ req.body.title = <<" ", "a", " ">>
    /\ req.body.description = <<" ", "d">>
    /\ Len(req.body.dueDate) = 24
    /\ req.body.status = <<"in-progress">>
    /\ FetchCreated.code = 200
    /\ FetchCreated.body.task.title = <<"a">>
    /\ FetchCreated.body.task.description = <<"d">>
    /\ FetchCreated.body.task.status = <<"in-progress">>
    /\ FetchCreated.body.task.dueDate = 2031

-----------------------------------------------------------------------------
(* C18 *)

\* The tasks of the caller that match the status of the query (all of them
\* when the query gives none).
CallersMatching ==
    {d \in tasks :
        /\ d.userId = ReqUser._id
        /\ Missing(req.query.status) \/ d.status = req.query.status}

\* a comes no later than b under the sort field of the query, ascending.
NotAfter(a, b) ==
    IF req.query.sortBy = Undefined THEN a.dueDate <= b.dueDate
    ELSE IF req.query.sortBy = <<"title">> THEN ~StrLess(b.title, a.title)
    ELSE TRUE

\* C18: the response of GET /tasks is 200 and lists, each once, exactly the
\* caller's tasks that match the status of the query (all of the caller's
\* tasks when no status is given); count is the number of tasks listed; the
\* list is in ascending order of dueDate when the query names no sort, and
\* it is in descending order only when order is exactly 'desc': any other
\* order, or none, gives the ascending one.
C18_ListFilteredSorted ==
    (req.pc = "done" /\ req.method = "LIST") =>
        LET ts == resp.body.tasks
            n == Len(ts)
        IN  /\ resp.code = 200
            /\ resp.body.count = n
            /\ n = Cardinality(CallersMatching)
            /\ \A d \in CallersMatching : \E i \in 1..n :
                  /\ ts[i]._id = d._id
                  /\ \A f \in {"title", "description", "dueDate", "status",
                               "priority"} : ts[i][f] = d[f]
            /\ \A i \in 1..n : \E d \in CallersMatching : ts[i]._id = d._id
            /\ \A i, j \in 1..n :
                  i < j => IF req.query.order = <<"desc">>
                           THEN NotAfter(ts[j], ts[i])
                           ELSE NotAfter(ts[i], ts[j])

\* With the order 'DESC' and no sort field, the caller got its two tasks
\* with the earlier dueDate first.
C18_Witness ==
    /\ req.pc = "done"
    /\ req.method = "LIST"
    /\ req.query.order = <<"DESC">>
    /\ req.query.sortBy = Undefined
    /\ resp.body.count = 2
    /\ resp.body.tasks[1].dueDate < resp.body.tasks[2].dueDate

-----------------------------------------------------------------------------
(* C19 *)

\* C19: a GET, PUT, DELETE or PATCH on /tasks/:id whose id is malformed is
\* answered 400, whatever its body, and leaves the Task collection as it
\* was.
C19_MalformedId400 ==
    [][ ( /\ AnswerStep
          /\ req'.method \in {"GET", "PUT", "DELETE", "PATCH"}
          /\ req'.id = 0 ) =>
          /\ resp'.code = 400
          /\ tasks' = tasks
          /\ nextId' = nextId
      ]_vars

\* A PATCH with a malformed id and a status outside the enumeration was
\* answered 400 "Invalid task ID" while tasks are stored.
C19_Witness ==
    /\ req.pc = "done"
    /\ req.method = "PATCH"
    /\ req.id = 0
    /\ req.body.status = <<"done">>
    /\ resp = [code |-> 400, body |-> [message |-> "Invalid task ID"]]
    /\ tasks # {}

-----------------------------------------------------------------------------
(* C20 *)

\* C20 as stated: every response with a status of 400 or above, whoever
\* sends it (the gate, a task route, the 404 handler, the global error
\* handler, the serverless handler), has a body whose only field is message.
C20_ErrorBodyOnlyMessage ==
    resp.code >= 400 => DOMAIN resp.body = {"message"}

-----------------------------------------------------------------------------
(* C21 *)

\* The password hashes of the User collection as it was created.
PasswordHashes == {<<"$2a$", u>> : u \in {"u1", "u2"}}

\* A user object that leaves the store for a request or a response: its
\* fields are _id, username and email, and neither string holds a password
\* hash.
PublicUser(o) ==
    /\ DOMAIN o = {"_id", "username", "email"}
    /\ o.username \notin PasswordHashes
    /\ o.email \notin PasswordHashes

\* The owner objects joined onto the tasks of the response.
JoinedOwners ==
    IF req.pc # "done" \/ resp.code \notin {200, 201} THEN {}
    ELSE IF req.method \in {"GET", "POST", "PUT", "PATCH"}
    THEN resp.body.task.userId
    ELSE IF req.method = "LIST"
    THEN UNION {resp.body.tasks[i].userId : i \in DOMAIN resp.body.tasks}
    ELSE {}

\* C21: the identity the gate attaches to the request has no password
\* field; a response body has no field but message, task, tasks and count;
\* the owner joined onto a task of a response has the fields _id, username
\* and email only, none holding a password hash; and the task a DELETE
\* returns names its owner by id.
C21_NoPasswordLeaves ==
    /\ \A u \in req.user : PublicUser(u)
    /\ "password" \notin DOMAIN resp.body
    /\ DOMAIN resp.body \subseteq {"message", "task", "tasks", "count"}
    /\ \A o \in JoinedOwners : PublicUser(o)
    /\ (req.pc = "done" /\ req.method = "DELETE" /\ resp.code = 200) =>
          resp.body.task.userId \in {"u1", "u2"}

\* A GET returned a task with its owner joined on, while the owner's
\* document in the store holds its password hash.
C21_Witness ==
    /\ req.pc = "done"
    /\ req.method = "GET"
    /\ resp.code = 200
    /\ \E o \in resp.body.task.userId : \E d \in users :
          d._id = o._id /\ d.password \in PasswordHashes

-----------------------------------------------------------------------------
(* C22 *)

\* The three statuses.
Statuses == {<<"pending">>, <<"in-progress">>, <<"completed">>}

\* o is the outcome of a request answered 200 that moved task d of the
\* store to status s and changed nothing else.
MovedTo(o, store, d, s) ==
    /\ o.resp.code = 200
    /\ o.resp.body.task.status = s
    /\ o.tasks = (store \ {d}) \cup {[d EXCEPT !.status = s]}

\* PUT /tasks/:id {status: s} by user u on task d: the load, then the save.
PutStatus(store, userStore, nid, u, d, s) ==
    LET l == UpdateLoad(store, u, d._id, StatusBody(s)) IN
    IF l.doc = {} THEN Outcome(store, nid, l.resp)
    ELSE UpdateSave(store, userStore, nid,
                    CHOOSE x \in l.orig : TRUE, CHOOSE x \in l.doc : TRUE)

\* C22: in every state, for every stored task, whatever its status, its
\* owner and every status s of the enumeration, a single PATCH
\* /tasks/:id/status {status: s} and a single PUT /tasks/:id {status: s} are
\* answered 200 and leave the task with status s; and every PATCH or PUT
\* that names a task of the caller and carries a status of the enumeration
\* is answered 200 and leaves that task with that status.
C22_AnyTransition ==
    [][ /\ \A d \in tasks' : \A u \in users' : \A s \in Statuses :
              u._id = d.userId =>
                 /\ MovedTo(PatchStatus(tasks', users', nextId', SelectPublic(u),
                                        d._id, StatusBody(s)), tasks', d, s)
                 /\ MovedTo(PutStatus(tasks', users', nextId', SelectPublic(u),
                                      d, s), tasks', d, s)
        /\ ( /\ AnswerStep
             /\ req'.method \in {"PATCH", "PUT"}
             /\ req'.body.status \in Statuses
             /\ \E d \in tasks : d._id = req'.id /\ d.userId = ReqUser._id ) =>
              /\ resp'.code = 200
              /\ \E d \in tasks' :
                    d._id = req'.id /\ d.status = req'.body.status
      ]_vars

\* A PUT moved a completed task straight to in-progress, a move the
\* client's menu does not offer.
C22_Witness ==
    /\ req.pc = "done"
    /\ req.method = "PUT"
    /\ resp.code = 200
    /\ req.body.status = <<"in-progress">>
    /\ \E o \in req.orig : o.status = <<"completed">>
    /\ \E d \in tasks : d._id = req.id /\ d.status = <<"in-progress">>

-----------------------------------------------------------------------------
(* C23 *)

\* The PUT body sets the field: description when it is given at all, the
\* other fields when they are given and not empty.
Sets(b, f) == IF f = "description" THEN b[f] # Undefined ELSE ~Missing(b[f])

\* A PUT request r, answered with a, has just saved while its task was
\* stored: it is answered 200 and, for every field its body sets, the stored
\* task holds the value the request assigned.
SaverWins(r, a) ==
    /\ a.code = 200
    /\ \A doc \in r.doc : \A d \in tasks' :
          d._id = doc._id =>
             \A f \in {"title", "description", "dueDate", "status", "priority"} :
                Sets(r.body, f) => d[f] = doc[f]

\* The request req, or the second request, saves its PUT.
ReqSaveStep == req.pc = "saving" /\ req'.pc = "done"
PeerSaveStep == peer.req.pc = "saving" /\ peer'.req.pc = "done"

\* C23 as stated: when PUT requests of the owner on one task interleave,
\* each save, made while the task is stored, is answered 200, and after it
\* every field its request set holds that request's value; so for a field
\* both requests set, the value stored in the end is that of the request
\* that saved last.
C23_LastWriterWins ==
    [][ /\ (ReqSaveStep /\ \E doc \in req.doc : \E d \in tasks : d._id = doc._id)
              => SaverWins(req, resp')
        /\ (PeerSaveStep
              /\ \E doc \in peer.req.doc : \E d \in tasks : d._id = doc._id)
              => SaverWins(peer.req, peer'.resp)
      ]_vars

-----------------------------------------------------------------------------
(* C26 *)

\* The save of a PUT whose task was deleted since the PUT loaded it.
SaveOfDeleted(r) == \E doc \in r.doc : doc._id \in DeletedIds

\* C26: a task that was deleted is never stored again; the save of a PUT
\* whose task was deleted after the PUT loaded it is answered with an error
\* and leaves the Task collection as it was.
C26_DeletedStaysDeleted ==
    [][ /\ DeletedIds \subseteq DeletedIds'
        /\ (ReqSaveStep /\ SaveOfDeleted(req)) =>
              /\ tasks' = tasks
              /\ resp'.code >= 400
        /\ (PeerSaveStep /\ SaveOfDeleted(peer.req)) =>
              /\ tasks' = tasks
              /\ peer'.resp.code >= 400
      ]_vars

\* A PUT loaded the task, a DELETE of the task was answered 200, then the
\* PUT saved: the task is not stored.
C26_Witness ==
    /\ req.pc = "done"
    /\ req.method = "PUT"
    /\ req.doc # {}
    /\ peer.req.pc = "done"
    /\ peer.req.method = "DELETE"
    /\ peer.req.id = req.id
    /\ peer.resp.code = 200
    /\ \E o \in req.orig : peer.resp.body.task = o
    /\ req.id \in DeletedIds
    /\ resp.code = 500


-----------------------------------------------------------------------------
(* C25 *)

\* The last response answers a PUT or PATCH with 200.
Updated200 ==
    /\ req.pc = "done"
    /\ req.method \in {"PUT", "PATCH"}
    /\ resp.code = 200

\* C25: in every state every stored task is owned by the user who created
\* it, whatever PUT and PATCH requests were answered before, bodies that
\* carry a userId field included; and no step in which a PUT or PATCH is
\* answered changes the owner of any task.
C25_OwnerNeverChanges ==
    [][ /\ \A d \in tasks' :
              d._id \in DOMAIN creator' /\ d.userId = creator'[d._id]
        /\ (AnswerStep /\ req'.method \in {"PUT", "PATCH"}) =>
              \A d \in tasks : \A e \in tasks' :
                 d._id = e._id => d.userId = e.userId
      ]_vars

\* User u1 updated a task of theirs with a body naming u2 as the owner, and
\* was answered 200.
C25_Witness ==
    /\ Updated200
    /\ req.body.userId = <<"u2">>
    /\ ReqUser._id = "u1"
    /\ \E d \in tasks : d._id = req.id /\ d.userId = "u1"


-----------------------------------------------------------------------------
(* C27 *)

\* A pending connection attempt is rejected in this step.
RejectStep == attempts'.failed > attempts.failed

\* C27: as long as no connection attempt has failed, mongoose.connect has
\* been called at most once, however many requests entered the handler
\* and whenever they did.
C27_ConnectsOnce ==
    attempts.failed = 0 => attempts.calls <= 1

\* C27, after a failure: the step in which an attempt is rejected leaves
\* the flag as it was, answers 500 with the message and the error and does
\* not hand the request to the app.
C27_FailureLeavesFlag ==
    [][ RejectStep =>
           /\ isConnected' = isConnected
           /\ resp'.code = 500
           /\ DOMAIN resp'.body = {"message", "error"}
           /\ req'.pc = "done" /\ req'.method = "none"
           /\ UNCHANGED <<tasks, nextId>>
      ]_vars

-----------------------------------------------------------------------------
(* C24 *)

\* The statuses the status menu offers for a task with status s.
Offers(s) ==
    LET actions == GetStatusActions([_id |-> 1, status |-> s]) IN
      {actions[k].status : k \in DOMAIN actions}

\* The statuses a task reaches from the statuses of S by offers of the menu
\* that do not lead to pending, in at most n clicks.
RECURSIVE AvoidingPending(_, _)
AvoidingPending(S, n) ==
    IF n = 0 THEN S
    ELSE AvoidingPending(
            S \cup UNION {Offers(s) \ {<<"pending">>} : s \in S}, n - 1)

\* The requests PATCH /tasks/:id/status the status menu has in flight.
MenuPatches ==
    {dash.ops[i] : i \in {j \in 1..MaxInFlight :
                             dash.ops[j].req.method = "PATCH"}}

\* C24: the status menu offers in-progress and completed for a pending
\* task, completed and pending for a task in progress, and pending alone
\* for a completed task; it never offers the status the task has; by its
\* offers a completed task reaches in-progress only through pending; and
\* every status request the menu sends carries a status offered for the
\* status the task was shown with, different from it.
C24_MenuOffersOtherStatuses ==
    /\ Offers(<<"pending">>) = {<<"in-progress">>, <<"completed">>}
    /\ Offers(<<"in-progress">>) = {<<"completed">>, <<"pending">>}
    /\ Offers(<<"completed">>) = {<<"pending">>}
    /\ \A s \in StatusEnum : s \notin Offers(s)
    /\ <<"in-progress">> \notin
          AvoidingPending(Offers(<<"completed">>) \ {<<"pending">>},
                          Cardinality(StatusEnum))
    /\ \A i \in DOMAIN dash.tasks :
          LET actions == GetStatusActions(dash.tasks[i]) IN
            \A k \in DOMAIN actions : actions[k].status # dash.tasks[i].status
    /\ \A op \in MenuPatches :
          /\ op.from \in StatusEnum
          /\ op.req.body.status # op.from
          /\ op.from = <<"pending">> =>
                op.req.body.status \in {<<"in-progress">>, <<"completed">>}
          /\ op.from = <<"in-progress">> =>
                op.req.body.status \in {<<"completed">>, <<"pending">>}
          /\ op.from = <<"completed">> => op.req.body.status = <<"pending">>

\* The menu of a task shown as completed sent the request that reopens it,
\* and the server answered 200.
C24_Witness ==
    \E op \in MenuPatches :
       /\ op.from = <<"completed">>
       /\ op.req.body.status = <<"pending">>
       /\ op.stage = "answered"
       /\ op.resp.code = 200


-----------------------------------------------------------------------------
(* C28 *)

\* Every request the Dashboard and its dialog started has settled.
AllSettled ==
    /\ \A i \in 1..MaxInFlight : dash.ops[i] = NoOp
    /\ dialog.stage = "idle"

\* The lists GET /tasks answers the logged-in user with, in this state.
ServerLists ==
    {r.body.tasks :
        r \in UNION {GetTasks(tasks, users, u, EmptyQuery) :
                        u \in {x \in users : x._id = storage.user}}}

-----------------------------------------------------------------------------
(* C29 *)

\* A 401 response reaches the client in this step.
Receive401Step ==
    \/ \E i \in 1..MaxInFlight :
          /\ dash.ops[i].stage = "answered"
          /\ dash.ops[i].resp.code = 401
          /\ dash'.ops[i] # dash.ops[i]
    \/ /\ dialog.stage = "answered"
       /\ dialog.resp.code = 401
       /\ dialog'.stage = "idle"

\* The user logs out in this step.
LogoutStep ==
    /\ dash.mounted /\ ~dash'.mounted
    /\ ~storage.leaving

-----------------------------------------------------------------------------
(* C30 *)

\* The dialog sends its request in this step.
DialogSendStep == dialog.stage = "idle" /\ dialog'.stage = "sent"

\* The request of the dialog is on its way or its response is.
DialogInFlight == dialog.stage \in {"sent", "answered"}

\* C30: the dialog sends a request only from a form whose trimmed title is
\* not empty and has at most 200 characters, whose description has at most
\* 1000 characters and whose due date is present and valid, and the request
\* is a POST or a PUT of that form; loading is true exactly while the
\* request is in flight, whether it succeeds or fails; and while loading
\* the dialog closes only when its request has succeeded, never by
\* handleClose.
C30_DialogSendsValidAndLoads ==
    [][ /\ DialogSendStep =>
              /\ Trim(dialog.form.title) # <<>>
              /\ Len(Trim(dialog.form.title)) <= 200
              /\ Len(dialog.form.description) <= 1000
              /\ dialog.form.dueDate \notin {NullDate, NaN}
              /\ dialog'.req.method \in {"POST", "PUT"}
              /\ dialog'.req.body.title = Trim(dialog.form.title)
        /\ dialog'.loading = (dialog'.stage \in {"sent", "answered"})
        /\ (dialog.loading /\ dialog.open /\ ~dialog'.open) =>
              /\ dialog.stage = "answered"
              /\ Resolved(dialog.resp)
              /\ ~dialog'.loading
        /\ (dialog.stage = "answered" /\ dialog'.stage = "idle") =>
              /\ ~dialog'.loading
              /\ dialog'.open = ~Resolved(dialog.resp)
      ]_vars

\* A request of the dialog has failed: the dialog is open with the error,
\* and loading is false.
C30_Witness ==
    /\ dialog.open
    /\ dialog.apiError
    /\ ~dialog.loading
    /\ ~DialogInFlight

====
